---- MODULE Spec2Model ----
(***************************************************************************)
(* State-machine model of the live-preview synchronisation code of         *)
(* nativescript-cli:                                                       *)
(*   - PreviewAppLiveSyncService  (src/test/project-service.ts 367-559)    *)
(*   - HmrStatusService           (src/unnamed/part_000 4-96)              *)
(*   - LogParserService           (src/unnamed/part_000 104-142)           *)
(*                                                                         *)
(* JavaScript runs every callback to completion and drains the promise     *)
(* reactions (microtasks) before it takes the next event, so one action of *)
(* the model is one event together with the promise reactions it causes;   *)
(* an `await` on an external collaborator ends the action.                 *)
(***************************************************************************)
EXTENDS Integers, Sequences, FiniteSets, TLC

(***************************************************************************)
(* Bounds of the model.                                                    *)
(***************************************************************************)
\* the events of a run of SpecPreview (device initialisation)
MaxInits == 3          \* initializePreviewForDevice invocations
MaxCallers == 4        \* invocations of the device callback
\* the events of a run of SpecSync (sync cycles)
SyncInits == 1         \* initializePreviewForDevice invocations
SyncCallers == 1       \* invocations of the device callback
MaxRequests == 4       \* startSyncFilesTimeout calls
MaxSyncFilesCalls == 1 \* syncFiles calls

Devices == {"d1", "d2"}
Platforms == {"ios", "android"}

(***************************************************************************)
(* Files.  A path is kept as its directory, its base name and its          *)
(* extension, the three things getFilesPayload looks at.                   *)
(***************************************************************************)
mainJs == [dir |-> "app", base |-> "main.js", ext |-> ".js"]
appCss == [dir |-> "app", base |-> "app.css", ext |-> ".css"]
compTs == [dir |-> "app", base |-> "comp.ts", ext |-> ".ts"]
oldTs == [dir |-> "app", base |-> "old.ts", ext |-> ".ts"]
coreJs == [dir |-> "tns_modules", base |-> "core.js", ext |-> ".js"]
Files == {mainJs, appCss, compTs, oldTs, coreJs}

TNS_MODULES_FOLDER_NAME == "tns_modules"
APP_RESOURCES_FOLDER_NAME == "App_Resources"
excludedFileExtensions == {".ts", ".sass", ".scss", ".less"}
excludedFiles == {".DS_Store"}

VARIABLES
    \* ---- PreviewAppLiveSyncService ----
    platformOf,                   \* Device.platform of every device
    connectedDevices,             \* $previewSdkService.connectedDevices
    deviceInitializationPromise,  \* device id -> promise (index in inits), 0 = null
    inits,                        \* the initializePreviewForDevice invocations
    callers,                      \* the invocations of the device callback
    cycles,                       \* the syncFilesForPlatformSafe runs in flight
    burst,                        \* history: the last run of a chain that ended
    sf,                           \* the syncFiles call
    nRequests,                    \* startSyncFilesTimeout calls made
    nSyncFilesCalls,              \* syncFiles calls made
    limits,                       \* the number of events of each kind the run may take
    \* ---- LogParserService ----
    parseRules,                   \* the rules, in the order of their names' insertion
    parsingStarted,               \* startParsingLogCore has run (@cache)
    listeners,                    \* processDeviceLogResponse listeners on a log source
    \* ---- HmrStatusService ----
    hmrAttached,                  \* attachToHmrStatusEvent has run (@cache)
    nAttach,                      \* attachToHmrStatusEvent calls counted
    hashOperationStatuses,        \* key -> status
    intervals,                    \* key -> timer handle (index in waits), 0 = null
    waits,                        \* the getHmrStatus calls: promise, timer, retryCount
    disposed,                     \* dispose has run
    \* ---- history ----
    lastAdd,                      \* the last addParseRule call
    firstRules,                   \* the rules first registered under each name, in order
    lastLog,                      \* the last device log message processed
    dispatched,                   \* the handler invocations it caused, in order
    \* ---- AndroidDeviceLiveSyncServiceBase ----
    localFiles,                   \* local path -> hash of the file's contents now
    deviceTable,                  \* the hash file on the device: local path -> hash
    tf,                           \* the transferFiles call
    lastTransfer,                 \* history: the transferFiles call before this one
    nTransfers,                   \* transferFiles calls made
    nEdits,                       \* changes of file contents made
    \* ---- stopLiveSync ----
    liveSyncStopped,              \* stopLiveSync has run
    \* ---- PackageManager, NpmService, the start-up of the CLI ----
    pm,                           \* $options.yarn, this.packageManager, the forwarded calls
    npm,                          \* the NpmService.install call in flight or over
    cli                           \* the run of the start-up function

previewVars == <<platformOf, connectedDevices, deviceInitializationPromise, inits,
                 callers, cycles, burst, sf, nRequests, nSyncFilesCalls, limits>>

logVars == <<parseRules, parsingStarted, listeners, hmrAttached, nAttach, hashOperationStatuses,
             lastAdd, firstRules, lastLog, dispatched>>

timerVars == <<intervals, waits, disposed>>

hmrVars == <<logVars, timerVars>>

transferVars == <<localFiles, deviceTable, tf, lastTransfer, nTransfers, nEdits>>

toolVars == <<pm, npm, cli>>
vars == <<previewVars, hmrVars, transferVars, liveSyncStopped, toolVars>>

(***************************************************************************)
(* PreviewAppLiveSyncService.getFilesPayload: the files to transfer are    *)
(* the files to sync that are under no excluded root and have no excluded  *)
(* name or extension; the files to remove are taken as they are.           *)
(***************************************************************************)
isTransferred(file) ==
    /\ file.dir # TNS_MODULES_FOLDER_NAME
    /\ file.dir # APP_RESOURCES_FOLDER_NAME
    /\ file.base \notin excludedFiles
    /\ file.ext \notin excludedFileExtensions

getFilesPayload_FilteredUnlink(platform, filesToSync, filesToRemove) ==
    [ platform |-> platform,
      change   |-> {file \in filesToSync : isTransferred(file)},
      unlink   |-> {file \in filesToRemove : isTransferred(file)} ]

getFilesPayload(platform, filesToSync, filesToRemove) ==
    [ platform |-> platform,
      change   |-> {file \in filesToSync : isTransferred(file)},
      unlink   |-> filesToRemove ]

NoPayload == [platform |-> "", change |-> {}, unlink |-> {}]

\* $projectFilesManager.getProjectFiles(platformsAppFolderPath): the files of
\* the prepared app folder
getProjectFiles == {mainJs, appCss, coreJs}

\* _.map(undefined, ...) is []: a call without filesToRemove removes nothing
undefined == {}

(***************************************************************************)
(* Promises.  The promise of a run of syncFilesForPlatformSafe is resolved *)
(* when the run is over: every error is caught, so it never rejects.  Only *)
(* the runs in flight are kept; promise 0 is a resolved promise            *)
(* (Promise.resolve(null), or the promise of a run that is over).          *)
(***************************************************************************)
Range(seq) == {seq[k] : k \in DOMAIN seq}

InitIds == 1..Len(inits)
CycleIds == {cy.id : cy \in cycles}
cycle(c) == CHOOSE cy \in cycles : cy.id = c

newId(cs) ==
    CHOOSE n \in 1..(Cardinality(cs) + 1) :
        /\ n \notin {cy.id : cy \in cs}
        /\ \A m \in 1..(n - 1) : m \in {cy.id : cy \in cs}

isResolved(promise) == promise = 0

RunningCycles(p) == {cy \in cycles : cy.platform = p}

(***************************************************************************)
(* syncFilesForPlatformSafe, up to its first await: with skipPrepare the   *)
(* payload is built at once from the array filesToSync refers to and the   *)
(* run waits in applyChanges; without it the run waits in preparePlatform. *)
(*   origin  "init"      the initial sync of initializePreviewForDevice    *)
(*           "timeout"   a callback of startSyncFilesTimeout               *)
(*           "syncFiles" the loop of syncFiles                             *)
(*   chain   the initializePreviewForDevice invocation whose closure       *)
(*           (filesToSyncMap, promise) the run belongs to, 0 for syncFiles *)
(*   thens   the platforms of the startSyncFilesTimeout calls that did     *)
(*           promise.then(...) on this run's promise                       *)
(***************************************************************************)
syncFilesForPlatformSafe(id, platform, origin, chain, isInitialSync, skipPrepare, filesToSync, filesToRemove) ==
    [ id            |-> id,
      platform      |-> platform,
      origin        |-> origin,
      chain         |-> chain,
      isInitialSync |-> isInitialSync,
      filesToSync   |-> filesToSync,
      filesToRemove |-> filesToRemove,
      pc            |-> IF skipPrepare THEN "apply" ELSE "prepare",
      payload       |-> IF skipPrepare
                        THEN getFilesPayload(platform, filesToSync, filesToRemove)
                        ELSE NoPayload,
      thens         |-> <<>> ]

(***************************************************************************)
(* The device callback of PreviewAppLiveSyncService.initialize.            *)
(***************************************************************************)
\* every invocation of the callback holds the promise it returned or awaits
nCallers == Len(callers["d1"]) + Len(callers["d2"])

SlotBusy_NoCheck(d) == FALSE

\* if (this.deviceInitializationPromise[device.id]) return it
SlotBusy(d) == deviceInitializationPromise[d] # 0

finallyClear_Missing(slot, d) == slot

finallyClear_All(slot, d) == [x \in DOMAIN slot |-> 0]

\* finally { this.deviceInitializationPromise[device.id] = null; }
finallyClear(slot, d) == [slot EXCEPT ![d] = 0]

\* The closure of one initializePreviewForDevice invocation, up to the await
\* of executeBeforeHooks.  unsent is history: the transferable paths of the
\* requests made on this closure that no later run's payload held yet.
initializePreviewForDevice(d) ==
    [ device         |-> d,
      pc             |-> "hooks",
      outcome        |-> "pending",
      filesToSyncMap |-> [p \in Platforms |-> {}],
      promise        |-> 0,
      unsent         |-> [p \in Platforms |-> {}],
      payloads       |-> NoPayload ]

DeviceCallback(d) ==
    /\ nCallers < limits.callers
    /\ connectedDevices' = IF d \in Range(connectedDevices) THEN connectedDevices
                           ELSE Append(connectedDevices, d)
    /\ IF SlotBusy(d)
       THEN /\ callers' = [callers EXCEPT ![d] =
                                Append(@, deviceInitializationPromise[d])]
            /\ UNCHANGED <<deviceInitializationPromise, inits>>
       ELSE /\ Len(inits) < limits.inits
            /\ inits' = Append(inits, initializePreviewForDevice(d))
            /\ deviceInitializationPromise' =
                   [deviceInitializationPromise EXCEPT ![d] = Len(inits) + 1]
            /\ callers' = [callers EXCEPT ![d] = Append(@, Len(inits) + 1)]
    /\ UNCHANGED <<toolVars, liveSyncStopped, transferVars, hmrVars, platformOf, limits, cycles, burst, sf, nRequests, nSyncFilesCalls>>

\* The promise of invocation i settles; the owner's await returns or throws and
\* its finally block runs.
Settle(i, outcome, payloads) ==
    /\ inits' = [inits EXCEPT ![i].pc = "done", ![i].outcome = outcome,
                              ![i].payloads = payloads]
    /\ deviceInitializationPromise' =
           finallyClear(deviceInitializationPromise, inits[i].device)

\* await this.$hooksService.executeBeforeHooks("preview-sync", ...)
HooksDone(i) ==
    /\ i \in InitIds /\ inits[i].pc = "hooks"
    /\ inits' = [inits EXCEPT ![i].pc = "compare"]
    /\ UNCHANGED <<toolVars, liveSyncStopped, transferVars, hmrVars, platformOf, limits, connectedDevices, deviceInitializationPromise,
                   callers, cycles, burst, sf, nRequests, nSyncFilesCalls>>

HooksFail(i) ==
    /\ i \in InitIds /\ inits[i].pc = "hooks"
    /\ Settle(i, "error", NoPayload)
    /\ UNCHANGED <<toolVars, liveSyncStopped, transferVars, hmrVars, platformOf, limits, connectedDevices, callers, cycles, burst, sf,
                   nRequests, nSyncFilesCalls>>

\* await comparePluginsOnDevice, then the initial sync starts
CompareDone(i) ==
    /\ i \in InitIds /\ inits[i].pc = "compare"
    /\ inits' = [inits EXCEPT ![i].pc = "sync"]
    /\ cycles' = cycles \cup
           {syncFilesForPlatformSafe(newId(cycles), platformOf[inits[i].device],
                                     "init", i, TRUE, FALSE, {}, {})}
    /\ UNCHANGED <<toolVars, liveSyncStopped, transferVars, hmrVars, platformOf, limits, connectedDevices, deviceInitializationPromise,
                   callers, burst, sf, nRequests, nSyncFilesCalls>>

CompareFail(i) ==
    /\ i \in InitIds /\ inits[i].pc = "compare"
    /\ Settle(i, "error", NoPayload)
    /\ UNCHANGED <<toolVars, liveSyncStopped, transferVars, hmrVars, platformOf, limits, connectedDevices, callers, cycles, burst, sf,
                   nRequests, nSyncFilesCalls>>

(***************************************************************************)
(* startSyncFilesTimeout(platform) of the closure of invocation i, called  *)
(* by the preview-sync hook after it has put the emitted file into         *)
(* filesToSyncMap[platform].  `promise` is the closure's variable: it is   *)
(* assigned only inside the callback given to promise.then.  On a resolved *)
(* promise the callback runs in the same turn and starts a run; on a       *)
(* pending one the callback is queued on that run's promise.               *)
(***************************************************************************)
transferable(files) == {file \in files : isTransferred(file)}

startSyncFilesTimeout(i, platform, file) ==
    LET map == [inits[i].filesToSyncMap EXCEPT ![platform] = @ \cup {file}]
        asked == [inits[i].unsent EXCEPT ![platform] = @ \cup transferable(map[platform])]
        promise == inits[i].promise
    IN  IF isResolved(promise)
        THEN /\ cycles' = cycles \cup
                     {syncFilesForPlatformSafe(newId(cycles), platform, "timeout", i,
                                               FALSE, TRUE, map[platform], {})}
             /\ inits' = [inits EXCEPT ![i].filesToSyncMap = map,
                                       ![i].promise = newId(cycles),
                                       ![i].unsent = [asked EXCEPT ![platform] =
                                                         @ \ transferable(map[platform])]]
        ELSE /\ cycles' = (cycles \ {cycle(promise)}) \cup
                     {[cycle(promise) EXCEPT !.thens = Append(@, platform)]}
             /\ inits' = [inits EXCEPT ![i].filesToSyncMap = map,
                                       ![i].unsent = asked]

StartSyncFilesTimeout(i, file) ==
    /\ i \in InitIds
    /\ nRequests < limits.requests
    /\ nRequests' = nRequests + 1
    /\ startSyncFilesTimeout(i, platformOf[inits[i].device], file)
    /\ UNCHANGED <<toolVars, liveSyncStopped, transferVars, hmrVars, platformOf, limits, connectedDevices, deviceInitializationPromise,
                   callers, burst, sf, nSyncFilesCalls>>

\* The callbacks queued on the promise of a run, in the order of their calls:
\* each one assigns `promise` a new run on what filesToSyncMap holds now.
\* The result is the runs in flight and the last value of `promise`.
RECURSIVE RunThens(_, _, _, _, _)
RunThens(cs, promise, thens, i, map) ==
    IF thens = <<>> THEN <<cs, promise>>
    ELSE RunThens(cs \cup {syncFilesForPlatformSafe(newId(cs), Head(thens), "timeout",
                                    i, FALSE, TRUE, map[Head(thens)], {})},
                  newId(cs), Tail(thens), i, map)

\* filesToSyncMap[platform] = [] of the call whose run is over, after its await
resetFilesToSync(map, platform) == [map EXCEPT ![platform] = {}]

TimeoutCycleOver_DropOnFailure(c, ok) ==
    LET cy == cycle(c)
        i == cy.chain
        map == inits[i].filesToSyncMap
        promise == IF inits[i].promise = c THEN 0 ELSE inits[i].promise
        next == RunThens(cycles \ {cy}, promise, cy.thens, i, map)
    IN  /\ cycles' = IF ok THEN next[1] ELSE cycles \ {cy}
        /\ burst' = [requests  |-> Len(cy.thens),
                     followUps |-> IF ok THEN Len(cy.thens) ELSE 0,
                     ok        |-> ok]
        /\ inits' = IF ~ok THEN inits
                    ELSE [inits EXCEPT
                             ![i].promise = next[2],
                             ![i].filesToSyncMap = resetFilesToSync(map, cy.platform),
                             ![i].unsent = [p \in Platforms |->
                                               IF p \in Range(cy.thens)
                                               THEN @[p] \ transferable(map[p])
                                               ELSE @[p]]]
        /\ UNCHANGED <<deviceInitializationPromise, sf>>

\* Run c of a startSyncFilesTimeout callback is over: the callbacks queued on
\* its promise run, then the call that started c goes on after its await.
TimeoutCycleOver(c, ok) ==
    LET cy == cycle(c)
        i == cy.chain
        map == inits[i].filesToSyncMap
        promise == IF inits[i].promise = c THEN 0 ELSE inits[i].promise
        next == RunThens(cycles \ {cy}, promise, cy.thens, i, map)
    IN  /\ cycles' = next[1]
        /\ burst' = [requests  |-> Len(cy.thens),
                     followUps |-> Cardinality(next[1]) - Cardinality(cycles \ {cy}),
                     ok        |-> ok]
        /\ inits' = [inits EXCEPT
               ![i].promise = next[2],
               ![i].filesToSyncMap = resetFilesToSync(map, cy.platform),
               ![i].unsent = [p \in Platforms |->
                                 IF p \in Range(cy.thens)
                                 THEN @[p] \ transferable(map[p])
                                 ELSE @[p]]]
        /\ UNCHANGED <<deviceInitializationPromise, sf>>

\* The initial sync of invocation i is over: `return payloads`, the payloads
\* of the project files, or undefined when the run caught an error.
InitCycleOver(c, ok) ==
    /\ cycles' = cycles \ {cycle(c)}
    /\ IF ok
       THEN Settle(cycle(c).chain, "payload",
                   getFilesPayload(cycle(c).platform, getProjectFiles, undefined))
       ELSE Settle(cycle(c).chain, "undefined", NoPayload)
    /\ UNCHANGED <<sf, burst>>

(***************************************************************************)
(* syncFiles(data, filesToSync, filesToRemove): comparePluginsOnDevice for *)
(* every connected device, then one run per distinct platform of the       *)
(* connected devices, each awaited before the next starts.                 *)
(***************************************************************************)
uniq_KeepAll(seq) == seq

RECURSIVE uniq(_)
uniq(seq) ==
    IF seq = <<>> THEN <<>>
    ELSE LET front == uniq(SubSeq(seq, 1, Len(seq) - 1))
             last == seq[Len(seq)]
         IN  IF last \in Range(front) THEN front ELSE Append(front, last)

connectedPlatforms == uniq([k \in DOMAIN connectedDevices |-> platformOf[connectedDevices[k]]])

\* all, ran and failed are history: the platforms of the call, those whose run
\* has started and those whose run caught an error
SfIdle == [pc |-> "idle", filesToSync |-> {}, filesToRemove |-> {}, platforms |-> <<>>,
           all |-> <<>>, ran |-> <<>>, failed |-> {}]

SyncFiles(filesToSync, filesToRemove) ==
    /\ sf.pc \in {"idle", "done", "rejected"}
    /\ nSyncFilesCalls < limits.syncFiles
    /\ nSyncFilesCalls' = nSyncFilesCalls + 1
    /\ sf' = IF connectedDevices = <<>>
             THEN [SfIdle EXCEPT !.pc = "done"]
             ELSE [SfIdle EXCEPT !.pc = "compare", !.filesToSync = filesToSync,
                                 !.filesToRemove = filesToRemove]
    /\ UNCHANGED <<toolVars, liveSyncStopped, transferVars, hmrVars, platformOf, limits, connectedDevices, deviceInitializationPromise, inits,
                   callers, cycles, burst, nRequests>>

\* the loop over the platforms: the run of the first platform left starts
syncNextPlatform(cs, call, platforms) ==
    IF platforms = <<>>
    THEN <<cs, [SfIdle EXCEPT !.pc = "done", !.all = call.all, !.ran = call.ran,
                              !.failed = call.failed]>>
    ELSE <<cs \cup {syncFilesForPlatformSafe(newId(cs), Head(platforms), "syncFiles", 0,
                          FALSE, FALSE, call.filesToSync, call.filesToRemove)},
           [call EXCEPT !.pc = "wait", !.platforms = Tail(platforms),
                        !.ran = Append(@, Head(platforms))]>>

SyncFilesCompared ==
    /\ sf.pc = "compare"
    /\ LET step == syncNextPlatform(cycles, [sf EXCEPT !.all = connectedPlatforms],
                                    connectedPlatforms)
       IN  cycles' = step[1] /\ sf' = step[2]
    /\ UNCHANGED <<toolVars, liveSyncStopped, transferVars, hmrVars, platformOf, limits, connectedDevices, deviceInitializationPromise, inits,
                   callers, burst, nRequests, nSyncFilesCalls>>

\* comparePluginsOnDevice rejects: syncFiles rejects
SyncFilesCompareFail ==
    /\ sf.pc = "compare"
    /\ sf' = [SfIdle EXCEPT !.pc = "rejected"]
    /\ UNCHANGED <<toolVars, liveSyncStopped, transferVars, hmrVars, platformOf, limits, connectedDevices, deviceInitializationPromise, inits,
                   callers, cycles, burst, nRequests, nSyncFilesCalls>>

SyncFilesCycleOver_Rethrow(c, ok) ==
    LET call == [sf EXCEPT !.failed = IF ok THEN @ ELSE @ \cup {cycle(c).platform}]
        step == IF ok THEN syncNextPlatform(cycles \ {cycle(c)}, call, sf.platforms)
                ELSE <<cycles \ {cycle(c)}, [call EXCEPT !.pc = "rejected"]>>
    IN  /\ cycles' = step[1]
        /\ sf' = step[2]
        /\ UNCHANGED <<deviceInitializationPromise, inits, burst>>

\* the run of a platform is over, with payloads or, after a caught error,
\* with undefined: the loop goes on
SyncFilesCycleOver(c, ok) ==
    LET call == [sf EXCEPT !.failed = IF ok THEN @ ELSE @ \cup {cycle(c).platform}]
        step == syncNextPlatform(cycles \ {cycle(c)}, call, sf.platforms)
    IN  /\ cycles' = step[1]
        /\ sf' = step[2]
        /\ UNCHANGED <<deviceInitializationPromise, inits, burst>>

(***************************************************************************)
(* The awaits of syncFilesForPlatformSafe.  An error of preparePlatform,   *)
(* getFilesPayload or applyChanges is caught and logged: the run resolves  *)
(* with undefined.                                                         *)
(***************************************************************************)
CycleOver(c, ok) ==
    CASE cycle(c).origin = "init"      -> InitCycleOver(c, ok)
      [] cycle(c).origin = "timeout"   -> TimeoutCycleOver(c, ok)
      [] cycle(c).origin = "syncFiles" -> SyncFilesCycleOver(c, ok)

PrepareDone_SkipsApply(c) ==
    /\ c \in CycleIds /\ cycle(c).pc = "prepare"
    /\ CycleOver(c, TRUE)
    /\ UNCHANGED <<toolVars, liveSyncStopped, transferVars, hmrVars, platformOf, limits, connectedDevices, callers, nRequests, nSyncFilesCalls>>

PrepareDone(c) ==
    /\ c \in CycleIds /\ cycle(c).pc = "prepare"
    /\ IF cycle(c).isInitialSync
       THEN CycleOver(c, TRUE)
       ELSE /\ cycles' = (cycles \ {cycle(c)}) \cup
                    {[cycle(c) EXCEPT !.pc = "apply",
                          !.payload = getFilesPayload(cycle(c).platform,
                              cycle(c).filesToSync, cycle(c).filesToRemove)]}
            /\ UNCHANGED <<deviceInitializationPromise, inits, sf, burst>>
    /\ UNCHANGED <<toolVars, liveSyncStopped, transferVars, hmrVars, platformOf, limits, connectedDevices, callers, nRequests, nSyncFilesCalls>>

PrepareFail(c) ==
    /\ c \in CycleIds /\ cycle(c).pc = "prepare"
    /\ CycleOver(c, FALSE)
    /\ UNCHANGED <<toolVars, liveSyncStopped, transferVars, hmrVars, platformOf, limits, connectedDevices, callers, nRequests, nSyncFilesCalls>>

ApplyDone(c) ==
    /\ c \in CycleIds /\ cycle(c).pc = "apply"
    /\ CycleOver(c, TRUE)
    /\ UNCHANGED <<toolVars, liveSyncStopped, transferVars, hmrVars, platformOf, limits, connectedDevices, callers, nRequests, nSyncFilesCalls>>

ApplyFail(c) ==
    /\ c \in CycleIds /\ cycle(c).pc = "apply"
    /\ CycleOver(c, FALSE)
    /\ UNCHANGED <<toolVars, liveSyncStopped, transferVars, hmrVars, platformOf, limits, connectedDevices, callers, nRequests, nSyncFilesCalls>>

(***************************************************************************)
(* Text.  A string of a device log is a sequence of tokens; a token is a   *)
(* run of characters that the code never looks into.  "\n" is the newline. *)
(***************************************************************************)
LetterTokens == {"Successfully applied update with", "Cannot apply update with",
                 "Checking for updates to the bundle with", " ", " hmr hash ",
                 "CONSOLE LOG", "JS", "build", "done"}      \* only a-z, A-Z, space
HashTokens == {"abc123", "bc123", "def456", "build", "done"}         \* only a-z, 0-9

\* String.prototype.split("\n")
RECURSIVE split(_)
split(message) ==
    IF \A k \in DOMAIN message : message[k] # "\n" THEN <<message>>
    ELSE LET k == CHOOSE n \in DOMAIN message :
                      message[n] = "\n" /\ \A m \in 1..(n - 1) : message[m] # "\n"
         IN  <<SubSeq(message, 1, k - 1)>> \o split(SubSeq(message, k + 1, Len(message)))

\* String.prototype.trim()
RECURSIVE trim(_)
trim(str) ==
    IF str = <<>> THEN str
    ELSE IF Head(str) = " " THEN trim(Tail(str))
    ELSE IF str[Len(str)] = " " THEN trim(SubSeq(str, 1, Len(str) - 1))
    ELSE str

\* String.prototype.toLowerCase(), on the platform names
toLowerCase(str) ==
    CASE str = "iOS"     -> "ios"
      [] str = "Android" -> "android"
      [] OTHER           -> str

NoMatch == [found |-> FALSE, group1 |-> <<>>, group2 |-> ""]

(***************************************************************************)
(* HmrStatusService.HMR_STATUS_LOG_REGEX.exec(line): a group of letters    *)
(* and spaces, " hmr hash ", a group of lower-case letters and digits (at  *)
(* most one token here) and a dot.  The match is the leftmost one, with    *)
(* the longest first group from that start.                                *)
(***************************************************************************)
HMR_STATUS_LOG_REGEX(line) ==
    LET n == Len(line)
        \* " hmr hash " at j, then a hash of at most one token, then a dot
        tails == {j \in 1..n :
                    /\ line[j] = " hmr hash "
                    /\ \/ (j + 1 <= n /\ line[j + 1] = ".")
                       \/ (j + 2 <= n /\ line[j + 1] \in HashTokens /\ line[j + 2] = ".")}
        \* the first token of the run of letters and spaces that ends before j
        startOf(j) == CHOOSE i \in 1..j :
                          /\ \A t \in i..(j - 1) : line[t] \in LetterTokens
                          /\ \A h \in 1..(i - 1) :
                                 \E t \in h..(j - 1) : line[t] \notin LetterTokens
    IN  IF tails = {} THEN NoMatch
        ELSE LET j == CHOOSE x \in tails :
                          \A y \in tails :
                              \/ startOf(x) < startOf(y)
                              \/ (startOf(x) = startOf(y) /\ x >= y)
             IN  [found  |-> TRUE,
                  group1 |-> SubSeq(line, startOf(j), j - 1),
                  group2 |-> IF line[j + 1] = "." THEN "" ELSE line[j + 1]]

\* the regular expression of another rule: the line holds the token
exec(regex, line) ==
    IF regex = "hmr" THEN HMR_STATUS_LOG_REGEX(line)
    ELSE IF regex \in Range(line)
         THEN [found |-> TRUE, group1 |-> <<regex>>, group2 |-> ""]
         ELSE NoMatch

(***************************************************************************)
(* HmrStatusService: the status table and handleHmrStatusFound.            *)
(***************************************************************************)
STARTED_MESSAGE == <<"Checking for updates to the bundle with">>
SUCCESS_MESSAGE == <<"Successfully applied update with">>
FAILED_MESSAGE == <<"Cannot apply update with">>
HMR_SUCCESS_STATUS == 2
HMR_ERROR_STATUS == 3
null == 0

\* const key = `${deviceId}${operationHash}`
keyOf(deviceId, operationHash) == deviceId \o operationHash

getStatusByKey(statuses, key) ==
    IF key \in DOMAIN statuses THEN statuses[key] ELSE null

setData(statuses, status, operationHash, deviceId) ==
    LET key == keyOf(deviceId, operationHash)
    IN  [k \in DOMAIN statuses \cup {key} |-> IF k = key THEN status ELSE statuses[k]]

statusOfMessage_NoFailure(message) ==
    IF message = SUCCESS_MESSAGE THEN HMR_SUCCESS_STATUS ELSE null

\* the switch on the message
statusOfMessage(message) ==
    CASE message = SUCCESS_MESSAGE -> HMR_SUCCESS_STATUS
      [] message = FAILED_MESSAGE  -> HMR_ERROR_STATUS
      [] OTHER                     -> null

handleHmrStatusFound(statuses, matches, deviceId) ==
    LET message == trim(matches.group1)
        hash == matches.group2
        status == statusOfMessage(message)
    IN  IF status # null THEN setData(statuses, status, hash, deviceId) ELSE statuses

(***************************************************************************)
(* LogParserService.                                                       *)
(***************************************************************************)
\* $errors.failWithoutHelp throws
failWithoutHelp == TRUE

RuleNames(rules) == {rules[k].name : k \in DOMAIN rules}

\* this.parseRules[rule.name] = rule: a new key goes last, a key that exists
\* keeps its place
putRule(rules, rule) ==
    IF rule.name \in RuleNames(rules)
    THEN [k \in DOMAIN rules |-> IF rules[k].name = rule.name THEN rule ELSE rules[k]]
    ELSE Append(rules, rule)

addParseRule_Overwrite(rules, rule) ==
    [rules |-> putRule(rules, rule), threw |-> FALSE]

\* addParseRule up to startParsingLogCore: the rules after the call, and
\* whether the call threw
addParseRule(rules, rule) ==
    IF rule.name \in RuleNames(rules) /\ failWithoutHelp
    THEN [rules |-> rules, threw |-> TRUE]
    ELSE [rules |-> putRule(rules, rule), threw |-> FALSE]

startParsingLogCore_NoCache(isCalled, count) == count + 1

\* startParsingLogCore (@cache: the body runs on the first call only): one
\* more listener on the device log provider and on the preview sdk service
startParsingLogCore(isCalled, count) == IF isCalled THEN count ELSE count + 1

NoRule == [name |-> "", regex |-> "", platform |-> "", handler |-> ""]

AddParseRuleCall(rule) ==
    LET call == addParseRule(parseRules, rule)
    IN  /\ parseRules' = call.rules
        /\ parsingStarted' = (parsingStarted \/ ~call.threw)
        /\ listeners' = IF call.threw THEN listeners
                        ELSE startParsingLogCore(parsingStarted, listeners)
        /\ lastAdd' = [rule |-> rule, known |-> rule.name \in RuleNames(parseRules),
                       threw |-> call.threw]
        /\ firstRules' = IF rule.name \in RuleNames(firstRules) THEN firstRules
                         ELSE Append(firstRules, rule)

AddParseRule(rule) ==
    /\ ~disposed
    /\ Len(parseRules) < limits.rules
    /\ AddParseRuleCall(rule)
    /\ UNCHANGED <<toolVars, liveSyncStopped, transferVars, previewVars, timerVars, hmrAttached, nAttach, hashOperationStatuses,
                   lastLog, dispatched>>

\* HmrStatusService.attachToHmrStatusEvent (@cache: the body runs once)
hmrStatusRule == [name |-> "hmrStatus", regex |-> "hmr", platform |-> "",
                  handler |-> "handleHmrStatusFound"]

AttachToHmrStatusEvent_NoCache ==
    /\ ~disposed
    /\ hmrAttached' = TRUE
    /\ nAttach' = IF nAttach < limits.attaches THEN nAttach + 1 ELSE nAttach
    /\ AddParseRuleCall(hmrStatusRule)
    /\ UNCHANGED <<toolVars, liveSyncStopped, transferVars, previewVars, timerVars, hashOperationStatuses, lastLog, dispatched>>

AttachToHmrStatusEvent ==
    /\ ~disposed
    /\ hmrAttached' = TRUE
    /\ nAttach' = IF nAttach < limits.attaches THEN nAttach + 1 ELSE nAttach
    /\ IF hmrAttached
       THEN UNCHANGED <<parseRules, parsingStarted, listeners, lastAdd, firstRules>>
       ELSE AddParseRuleCall(hmrStatusRule)
    /\ UNCHANGED <<toolVars, liveSyncStopped, transferVars, previewVars, timerVars, hashOperationStatuses, lastLog, dispatched>>

platformAllows_CaseSensitive(rule, devicePlatform) ==
    \/ devicePlatform = ""
    \/ rule.platform = ""
    \/ rule.platform = devicePlatform

\* the test on the platforms in processDeviceLogResponse
platformAllows(rule, devicePlatform) ==
    \/ devicePlatform = ""
    \/ rule.platform = ""
    \/ toLowerCase(rule.platform) = toLowerCase(devicePlatform)

\* parseRule.handler(matches, deviceIdentifier): run is the status table, the
\* invocations so far and whether a handler has thrown
callHandler(run, rule, matches, deviceIdentifier, lineNo) ==
    LET after == IF rule.handler = "handleHmrStatusFound"
                 THEN handleHmrStatusFound(run.statuses, matches, deviceIdentifier)
                 ELSE run.statuses
        key == keyOf(deviceIdentifier, matches.group2)
    IN  [ statuses |-> after,
          threw    |-> rule.handler = "throws",
          calls    |-> Append(run.calls,
                         [line |-> lineNo, rule |-> rule.name, handler |-> rule.handler,
                          deviceId |-> deviceIdentifier, message |-> trim(matches.group1),
                          before |-> getStatusByKey(run.statuses, key),
                          after |-> getStatusByKey(after, key)]) ]

\* _.forEach(this.parseRules, ...) on one line; an exception of a handler
\* ends processDeviceLogResponse
RECURSIVE forEachRule(_, _, _, _, _, _, _)
forEachRule(run, rules, k, line, lineNo, deviceIdentifier, devicePlatform) ==
    IF k > Len(rules) \/ run.threw THEN run
    ELSE LET matches == exec(rules[k].regex, line)
             next == IF platformAllows(rules[k], devicePlatform) /\ matches.found
                     THEN callHandler(run, rules[k], matches, deviceIdentifier, lineNo)
                     ELSE run
         IN  forEachRule(next, rules, k + 1, line, lineNo, deviceIdentifier, devicePlatform)

RECURSIVE forEachLine(_, _, _, _, _, _)
forEachLine(run, rules, lines, n, deviceIdentifier, devicePlatform) ==
    IF n > Len(lines) \/ run.threw THEN run
    ELSE forEachLine(forEachRule(run, rules, 1, lines[n], n, deviceIdentifier, devicePlatform),
                     rules, lines, n + 1, deviceIdentifier, devicePlatform)

processDeviceLogResponse(statuses, rules, message, deviceIdentifier, devicePlatform) ==
    forEachLine([statuses |-> statuses, threw |-> FALSE, calls |-> <<>>],
                rules, split(message), 1, deviceIdentifier, devicePlatform)

\* emitter.emit(DEVICE_LOG_EVENT_NAME, ...): the listeners run one after the
\* other; an exception of a listener ends the emit.  passes is the number of
\* runs of processDeviceLogResponse.
RECURSIVE emit(_, _, _, _, _, _)
emit(statuses, rules, count, message, deviceIdentifier, devicePlatform) ==
    IF count = 0 THEN [statuses |-> statuses, threw |-> FALSE, calls |-> <<>>, passes |-> 0]
    ELSE LET first == emit(statuses, rules, count - 1, message, deviceIdentifier, devicePlatform)
             next == processDeviceLogResponse(first.statuses, rules, message,
                                              deviceIdentifier, devicePlatform)
         IN  IF first.threw THEN first
             ELSE [statuses |-> next.statuses, threw |-> next.threw,
                   calls |-> first.calls \o next.calls, passes |-> first.passes + 1]

\* a log source emits DEVICE_LOG_EVENT_NAME
DeviceLog(message, deviceIdentifier, devicePlatform) ==
    /\ listeners > 0
    /\ ~disposed
    /\ LET run == emit(hashOperationStatuses, parseRules, listeners, message,
                       deviceIdentifier, devicePlatform)
       IN  /\ hashOperationStatuses' = run.statuses
           /\ dispatched' = run.calls
           /\ lastLog' = [message |-> message, deviceId |-> deviceIdentifier,
                          platform |-> devicePlatform, rules |-> parseRules,
                          passes |-> run.passes]
    /\ UNCHANGED <<toolVars, liveSyncStopped, transferVars, previewVars, timerVars, parseRules, parsingStarted, listeners, hmrAttached, nAttach,
                   lastAdd, firstRules>>

(***************************************************************************)
(* HmrStatusService.getHmrStatus: every call makes a promise and a timer   *)
(* of its own, with its own retryCount, and stores the timer's handle in   *)
(* this.intervals[key].  timer tells whether the interval is still         *)
(* scheduled; latePoll is history: the timer fired after the promise had   *)
(* been resolved.                                                          *)
(***************************************************************************)
RetryCount == 40

put(dict, key, value) ==
    [k \in DOMAIN dict \cup {key} |-> IF k = key THEN value ELSE dict[k]]

get(dict, key) == IF key \in DOMAIN dict THEN dict[key] ELSE null

\* clearInterval(handle)
clearInterval(ws, handle) ==
    IF handle \in DOMAIN ws THEN [ws EXCEPT ![handle].timer = FALSE] ELSE ws

GetHmrStatus(deviceId, operationHash) ==
    /\ ~disposed
    /\ Len(waits) < limits.waits
    /\ waits' = Append(waits, [key |-> keyOf(deviceId, operationHash),
                               retryCount |-> RetryCount, timer |-> TRUE,
                               resolved |-> FALSE, status |-> null, latePoll |-> FALSE])
    /\ intervals' = put(intervals, keyOf(deviceId, operationHash), Len(waits) + 1)
    /\ UNCHANGED <<toolVars, liveSyncStopped, transferVars, previewVars, logVars, disposed>>

\* the callback of setInterval of wait w
poll(ws, ivs, statuses, w) ==
    LET key == ws[w].key
        status == getStatusByKey(statuses, key)
    IN  IF status # null \/ ws[w].retryCount = 0
        THEN [ intervals |-> put(ivs, key, null),
               waits |-> [clearInterval(ws, get(ivs, key)) EXCEPT
                             ![w].resolved = TRUE,
                             ![w].status = IF ws[w].resolved THEN @ ELSE status,
                             ![w].latePoll = ws[w].resolved] ]
        ELSE [ intervals |-> ivs,
               waits |-> [ws EXCEPT ![w].retryCount = @ - 1] ]

Poll(w) ==
    /\ w \in DOMAIN waits
    /\ waits[w].timer
    /\ LET next == poll(waits, intervals, hashOperationStatuses, w)
       IN  waits' = next.waits /\ intervals' = next.intervals
    /\ UNCHANGED <<toolVars, liveSyncStopped, transferVars, previewVars, logVars, disposed>>

\* dispose: clearInterval of every handle in this.intervals
RECURSIVE clearAll(_, _)
clearAll(ws, handles) ==
    IF handles = {} THEN ws
    ELSE LET h == CHOOSE x \in handles : TRUE
         IN  clearAll(clearInterval(ws, h), handles \ {h})

Dispose ==
    /\ ~disposed
    /\ disposed' = TRUE
    /\ waits' = clearAll(waits, {intervals[k] : k \in DOMAIN intervals})
    /\ intervals' = [k \in DOMAIN intervals |-> null]
    /\ UNCHANGED <<toolVars, liveSyncStopped, transferVars, previewVars, logVars>>

\* PreviewAppLiveSyncService.stopLiveSync: this.$previewSdkService.stop(), and
\* nothing of HmrStatusService
StopLiveSync ==
    /\ liveSyncStopped' = TRUE
    /\ UNCHANGED <<toolVars, transferVars, previewVars, hmrVars>>

(***************************************************************************)
(* AndroidDeviceLiveSyncServiceBase.transferFiles.  The hash file of the   *)
(* device is a table local path -> hash; a deleted hash file reads as the  *)
(* empty table (getShasumsFromDevice() || {}).  One call runs at a time.   *)
(* The device file system and the hash service are collaborators: what     *)
(* they do is taken from the contract of the fingerprint store.            *)
(***************************************************************************)
Paths == {"app/main.js", "app/app.css"}
Shasums == {"h1", "h2"}
NoHash == "none"
EmptyTable == [p \in Paths |-> NoHash]
TransferOptions == [force : BOOLEAN, isFullSync : BOOLEAN]

\* deviceHashService.generateHashesFromLocalToDevicePaths(localToDevicePaths)
generateHashesFromLocalToDevicePaths(files, localToDevicePaths) ==
    [p \in Paths |-> IF p \in localToDevicePaths THEN files[p] ELSE NoHash]

\* deviceHashService.getChangedShasums(oldHashes, currentHashes): the paths
\* absent from the old table or stored with another hash
getChangedShasums(oldHashes, currentHashes) ==
    {p \in Paths : currentHashes[p] # NoHash /\ oldHashes[p] # currentHashes[p]}

\* fileSystem.updateHashesOnDevice(currentHashes): the hash file is replaced
\* by the given hashes, or the given entries are merged into it
updateHashesOnDevice(table, currentHashes, replace) ==
    IF replace THEN currentHashes
    ELSE [p \in Paths |-> IF currentHashes[p] # NoHash THEN currentHashes[p] ELSE table[p]]

\* fileSystem.deleteFile(hashFileDevicePath)
deleteFile(table) == EmptyTable

isDestructive_Never(options) == FALSE

isDestructive_Always(options) == TRUE

\* transferFilesCore: if (options.force && options.isFullSync)
isDestructive(options) == options.force /\ options.isFullSync

skipsDiff_ForceOnly(options) == options.force

skipsDiff_Never(options) == FALSE

\* getLocalToDevicePathsToTransfer: if (options.force || !options.isFullSync)
skipsDiff(options) == options.force \/ ~options.isFullSync

getChangedLocalToDevicePaths_OnlyKnown(oldHashes, localToDevicePaths, currentHashes) ==
    {p \in localToDevicePaths :
        oldHashes[p] # NoHash /\ p \in getChangedShasums(oldHashes, currentHashes)}

getChangedLocalToDevicePaths_NullAsCurrent(oldHashes, localToDevicePaths, currentHashes) ==
    LET old == IF oldHashes = EmptyTable THEN currentHashes ELSE oldHashes
    IN  {p \in localToDevicePaths : p \in getChangedShasums(old, currentHashes)}

\* getChangedLocalToDevicePaths, after getShasumsFromDevice has answered
getChangedLocalToDevicePaths(oldHashes, localToDevicePaths, currentHashes) ==
    {p \in localToDevicePaths : p \in getChangedShasums(oldHashes, currentHashes)}

NoTransfer == [pc |-> "idle", options |-> [force |-> FALSE, isFullSync |-> FALSE],
               localToDevicePaths |-> {}, currentHashes |-> EmptyTable,
               toTransfer |-> {}, returned |-> {}, tableBefore |-> EmptyTable,
               failedAt |-> "", log |-> <<>>]

TransferOver == tf.pc \in {"idle", "done", "rejected", "stopped"}

\* the contents of a local file change
Edit(p, h) ==
    /\ nEdits < limits.edits
    /\ localFiles[p] # h
    /\ localFiles' = [localFiles EXCEPT ![p] = h]
    /\ nEdits' = nEdits + 1
    /\ UNCHANGED <<toolVars, liveSyncStopped, previewVars, hmrVars, deviceTable, tf, lastTransfer, nTransfers>>

\* transferFiles(...), up to the await of generateHashesFromLocalToDevicePaths
TransferFiles(localToDevicePaths, options) ==
    /\ TransferOver
    /\ nTransfers < limits.transfers
    /\ nTransfers' = nTransfers + 1
    /\ lastTransfer' = tf
    /\ tf' = [NoTransfer EXCEPT !.pc = "hashing", !.options = options,
                                !.localToDevicePaths = localToDevicePaths,
                                !.tableBefore = deviceTable]
    /\ UNCHANGED <<toolVars, liveSyncStopped, previewVars, hmrVars, localFiles, deviceTable, nEdits>>

\* a collaborator rejects at step `at`: transferFiles rejects
Rejected(at) == [tf EXCEPT !.pc = "rejected", !.failedAt = at]

\* the hashes are there: transferFilesCore runs up to its first await
HashesGenerated ==
    /\ tf.pc = "hashing"
    /\ LET currentHashes ==
               generateHashesFromLocalToDevicePaths(localFiles, tf.localToDevicePaths)
           call == [tf EXCEPT !.currentHashes = currentHashes]
       IN  tf' = IF isDestructive(tf.options)
                 THEN [call EXCEPT !.pc = "deleting"]
                 ELSE IF skipsDiff(tf.options)
                 THEN [call EXCEPT !.pc = "transferring",
                                   !.toTransfer = tf.localToDevicePaths]
                 ELSE [call EXCEPT !.pc = "reading"]
    /\ UNCHANGED <<toolVars, liveSyncStopped, previewVars, hmrVars, localFiles, deviceTable, lastTransfer, nTransfers, nEdits>>

HashesFail ==
    /\ tf.pc = "hashing"
    /\ tf' = Rejected("hashes")
    /\ UNCHANGED <<toolVars, liveSyncStopped, previewVars, hmrVars, localFiles, deviceTable, lastTransfer, nTransfers, nEdits>>

\* await deleteFile(hashFileDevicePath), then transferDirectoryOnDevice starts
DeleteDone ==
    /\ tf.pc = "deleting"
    /\ deviceTable' = deleteFile(deviceTable)
    /\ tf' = [tf EXCEPT !.pc = "transferring", !.toTransfer = tf.localToDevicePaths,
                        !.log = Append(@, "delete")]
    /\ UNCHANGED <<toolVars, liveSyncStopped, previewVars, hmrVars, localFiles, lastTransfer, nTransfers, nEdits>>

DeleteFail ==
    /\ tf.pc = "deleting"
    /\ tf' = Rejected("delete")
    /\ UNCHANGED <<toolVars, liveSyncStopped, previewVars, hmrVars, localFiles, deviceTable, lastTransfer, nTransfers, nEdits>>

ShasumsRead_Commits ==
    /\ tf.pc = "reading"
    /\ tf' = [tf EXCEPT !.pc = "transferring",
                        !.toTransfer = getChangedLocalToDevicePaths(deviceTable,
                                           tf.localToDevicePaths, tf.currentHashes)]
    /\ deviceTable' = updateHashesOnDevice(deviceTable, tf.currentHashes, TRUE)
    /\ UNCHANGED <<toolVars, liveSyncStopped, previewVars, hmrVars, localFiles, lastTransfer, nTransfers, nEdits>>

\* await getShasumsFromDevice(), then transferFilesOnDevice starts
ShasumsRead ==
    /\ tf.pc = "reading"
    /\ tf' = [tf EXCEPT !.pc = "transferring",
                        !.toTransfer = getChangedLocalToDevicePaths(deviceTable,
                                           tf.localToDevicePaths, tf.currentHashes)]
    /\ UNCHANGED <<toolVars, liveSyncStopped, previewVars, hmrVars, localFiles, deviceTable, lastTransfer, nTransfers, nEdits>>

ShasumsFail ==
    /\ tf.pc = "reading"
    /\ tf' = Rejected("shasums")
    /\ UNCHANGED <<toolVars, liveSyncStopped, previewVars, hmrVars, localFiles, deviceTable, lastTransfer, nTransfers, nEdits>>

\* await transferDirectoryOnDevice / transferFilesOnDevice, then
\* updateHashesOnDevice starts
TransferDone ==
    /\ tf.pc = "transferring"
    /\ tf' = [tf EXCEPT !.pc = "updating", !.log = Append(@, "transfer")]
    /\ UNCHANGED <<toolVars, liveSyncStopped, previewVars, hmrVars, localFiles, deviceTable, lastTransfer, nTransfers, nEdits>>

TransferFail_Commits ==
    /\ tf.pc = "transferring"
    /\ tf' = Rejected("transfer")
    /\ deviceTable' = updateHashesOnDevice(deviceTable, tf.currentHashes, TRUE)
    /\ UNCHANGED <<toolVars, liveSyncStopped, previewVars, hmrVars, localFiles, lastTransfer, nTransfers, nEdits>>

TransferFail ==
    /\ tf.pc = "transferring"
    /\ tf' = Rejected("transfer")
    /\ UNCHANGED <<toolVars, liveSyncStopped, previewVars, hmrVars, localFiles, deviceTable, lastTransfer, nTransfers, nEdits>>

UpdateDone_NoWrite ==
    /\ tf.pc = "updating"
    /\ tf' = [tf EXCEPT !.pc = "done", !.returned = tf.toTransfer,
                        !.log = Append(@, "update")]
    /\ UNCHANGED <<toolVars, liveSyncStopped, previewVars, hmrVars, localFiles, deviceTable, lastTransfer, nTransfers, nEdits>>

\* await updateHashesOnDevice(currentHashes), return transferredFiles
UpdateDone ==
    /\ tf.pc = "updating"
    /\ \E replace \in BOOLEAN :
           deviceTable' = updateHashesOnDevice(deviceTable, tf.currentHashes, replace)
    /\ tf' = [tf EXCEPT !.pc = "done", !.returned = tf.toTransfer,
                        !.log = Append(@, "update")]
    /\ UNCHANGED <<toolVars, liveSyncStopped, previewVars, hmrVars, localFiles, lastTransfer, nTransfers, nEdits>>

UpdateFail ==
    /\ tf.pc = "updating"
    /\ tf' = Rejected("update")
    /\ UNCHANGED <<toolVars, liveSyncStopped, previewVars, hmrVars, localFiles, deviceTable, lastTransfer, nTransfers, nEdits>>

\* the process stops after the transport and before the hash file is written
StopBeforeUpdate ==
    /\ tf.pc = "updating"
    /\ tf' = [tf EXCEPT !.pc = "stopped"]
    /\ UNCHANGED <<toolVars, liveSyncStopped, previewVars, hmrVars, localFiles, deviceTable, lastTransfer, nTransfers, nEdits>>

TransferStart ==
    /\ localFiles = [p \in Paths |-> "h1"]
    /\ deviceTable = EmptyTable
    /\ tf = NoTransfer
    /\ lastTransfer = NoTransfer
    /\ nTransfers = 0
    /\ nEdits = 0

(***************************************************************************)
(* The specifications of PreviewAppLiveSyncService.  SpecPreview is the    *)
(* initialisation of the devices: the device callback and the steps of     *)
(* initializePreviewForDevice, the operations that read or write           *)
(* deviceInitializationPromise.  SpecSync adds the sync requests of the    *)
(* hook and of syncFiles.                                                  *)
(***************************************************************************)
(***************************************************************************)
(* PackageManager.  The constructor stores the delegate in the field       *)
(* packageManager; every method forwards to the method of the same name of *)
(* that field, with the arguments it was given.  asked is history: the     *)
(* call made on the PackageManager.                                        *)
(***************************************************************************)
NoCall == [receiver |-> "", method |-> "", args |-> <<>>]

\* this.$options.yarn ? this.$yarn : this.$npm
_determinePackageManager(options) == IF options.yarn THEN "yarn" ELSE "npm"

\* constructor(...) { this.packageManager = this._determinePackageManager(); }
PackageManager(options) ==
    [ options        |-> options,
      packageManager |-> _determinePackageManager(options),
      constructedWith |-> options,
      asked          |-> NoCall,
      forwarded      |-> NoCall ]

\* the operations of INodePackageManager with the number of their parameters
PackageManagerOperations ==
    [ install |-> 3, uninstall |-> 3, view |-> 2, search |-> 2, searchNpms |-> 1,
      getRegistryPackageData |-> 1, getCachePath |-> 0 ]

forward_LateBinding(state, operation, args) ==
    [receiver |-> _determinePackageManager(state.options), method |-> operation, args |-> args]

\* return this.packageManager.<operation>(...args)
forward(state, operation, args) ==
    [receiver |-> state.packageManager, method |-> operation, args |-> args]

\* a method of the PackageManager is called
PackageManagerCall(operation, args) ==
    /\ pm' = [pm EXCEPT !.asked = [receiver |-> "packageManager", method |-> operation,
                                   args |-> args],
                        !.forwarded = forward(pm, operation, args)]
    /\ UNCHANGED <<liveSyncStopped, transferVars, previewVars, hmrVars, npm, cli>>

\* the options object changes after the construction
SetYarn(value) ==
    /\ pm.options.yarn # value
    /\ pm' = [pm EXCEPT !.options.yarn = value]
    /\ UNCHANGED <<liveSyncStopped, transferVars, previewVars, hmrVars, npm, cli>>

(***************************************************************************)
(* NpmService.install.  Every npm command is a child process awaited in a  *)
(* try block; generateReferencesFile is called after them, outside of any  *)
(* try, and throws when package.json cannot be read.  failed and           *)
(* references are history: the commands that failed and the number of      *)
(* calls of generateReferencesFile.                                        *)
(***************************************************************************)
MaxNpmCalls == 2       \* NpmService.install calls

NoDependency == [name |-> "", version |-> "", installTypes |-> FALSE]

\* getNpmArguments(command, npmArguments)
getNpmArguments(command, npmArguments) == npmArguments \o <<command>>

\* executeNpmCommand: the dependency, with @version if there is one, is the
\* last argument
executeNpmCommand(npmArguments, dependency, version) ==
    IF dependency = "" THEN npmArguments
    ELSE IF version = "" THEN npmArguments \o <<dependency>>
    ELSE npmArguments \o <<dependency \o "@" \o version>>

npmInstall(dependency, version, npmArguments) ==
    executeNpmCommand(getNpmArguments("install", npmArguments), dependency, version)

npmPrune == executeNpmCommand(getNpmArguments("prune", <<>>), "", "")

TYPES_DIRECTORY == "@types/"

installTypingsForDependency(dependency) ==
    npmInstall(TYPES_DIRECTORY \o dependency, "", <<"--save-dev", "--save-exact">>)

\* this.hasTypesForDependency(name) is not awaited: the condition sees a
\* promise, which is truthy
hasTypesForDependency(name) == TRUE

NpmIdle ==
    [ pc |-> "idle", dependency |-> NoDependency, hasResult |-> FALSE,
      isInstalled |-> FALSE, isTypesInstalled |-> FALSE, error |-> "",
      spawned |-> <<>>, failed |-> {}, references |-> 0,
      outcome |-> "none", rejectedBy |-> "", calls |-> 0 ]

\* install(projectDir, dependencyToInstall), up to its first await
NpmServiceInstall(dependencyToInstall) ==
    /\ npm.pc \in {"idle", "over"}
    /\ npm.calls < MaxNpmCalls
    /\ npm' = IF dependencyToInstall # NoDependency
              THEN [NpmIdle EXCEPT
                       !.pc = "npmInstall", !.dependency = dependencyToInstall,
                       !.hasResult = TRUE, !.outcome = "pending",
                       !.calls = npm.calls + 1,
                       !.spawned = <<npmInstall(dependencyToInstall.name,
                                                dependencyToInstall.version,
                                                <<"--save", "--save-exact">>)>>]
              ELSE [NpmIdle EXCEPT
                       !.pc = "npmPrune", !.outcome = "pending",
                       !.calls = npm.calls + 1,
                       !.spawned = <<npmPrune>>]
    /\ UNCHANGED <<liveSyncStopped, transferVars, previewVars, hmrVars, pm, cli>>

\* this.generateReferencesFile(projectDir); return npmInstallResult
generateReferencesFile(state, written) ==
    [state EXCEPT !.pc = "over", !.references = @ + 1,
                  !.outcome = IF written THEN "resolved" ELSE "rejected",
                  !.rejectedBy = IF written THEN "" ELSE "generateReferencesFile"]

\* after the try block of the dependency: the typings are installed if they
\* are asked for and the dependency is installed
afterDependency(state) ==
    IF /\ state.dependency.installTypes
       /\ state.isInstalled
       /\ hasTypesForDependency(state.dependency.name)
    THEN <<TRUE, [state EXCEPT !.pc = "installTypings",
                     !.spawned = Append(@, installTypingsForDependency(state.dependency.name))]>>
    ELSE <<FALSE, state>>

\* the npm command awaited at npm.pc has ended; the function runs on to its
\* next await or to its end
commandEnded(state, ok, written) ==
    LET caught == [state EXCEPT !.error = state.pc, !.failed = @ \cup {state.pc}]
    IN  CASE state.pc = "npmInstall" ->
               LET next == afterDependency(IF ok THEN [state EXCEPT !.isInstalled = TRUE]
                                                 ELSE caught)
               IN  IF next[1] THEN next[2] ELSE generateReferencesFile(next[2], written)
          [] state.pc = "installTypings" ->
               generateReferencesFile(IF ok THEN [state EXCEPT !.isTypesInstalled = TRUE]
                                            ELSE caught, written)
          [] state.pc = "npmPrune" ->
               IF ok THEN [state EXCEPT !.pc = "npmInstallAll",
                                        !.spawned = Append(@, npmInstall("", "", <<>>))]
               ELSE generateReferencesFile(caught, written)
          [] state.pc = "npmInstallAll" ->
               generateReferencesFile(IF ok THEN state ELSE caught, written)

NpmCommandDone ==
    /\ npm.pc \in {"npmInstall", "installTypings", "npmPrune", "npmInstallAll"}
    /\ \E written \in BOOLEAN : npm' = commandEnded(npm, TRUE, written)
    /\ UNCHANGED <<liveSyncStopped, transferVars, previewVars, hmrVars, pm, cli>>

NpmCommandFail_Rethrows ==
    /\ npm.pc \in {"npmInstall", "installTypings", "npmPrune", "npmInstallAll"}
    /\ npm' = [npm EXCEPT !.pc = "over", !.outcome = "rejected", !.rejectedBy = npm.pc,
                          !.failed = @ \cup {npm.pc}]
    /\ UNCHANGED <<liveSyncStopped, transferVars, previewVars, hmrVars, pm, cli>>

\* the child process of the command fails: catch (err) { npmInstallResult.error = err; }
NpmCommandFail ==
    /\ npm.pc \in {"npmInstall", "installTypings", "npmPrune", "npmInstallAll"}
    /\ \E written \in BOOLEAN : npm' = commandEnded(npm, FALSE, written)
    /\ UNCHANGED <<liveSyncStopped, transferVars, previewVars, hmrVars, pm, cli>>

(***************************************************************************)
(* The start-up of the CLI (the async function of nativescript-cli.ts).    *)
(* args are the command line arguments after the executable and the        *)
(* script, so that process.argv[2] is args[1].  invoked is the sequence of *)
(* the dispatcher's methods called so far.                                 *)
(***************************************************************************)
MaxExtensions == 2     \* promises returned by loadExtensions

\* process.argv[2] === "completion"
isCompletion(args) == Len(args) >= 1 /\ args[1] = "completion"

\* the function up to its first await
main(args, toLoad) ==
    [ pc |-> "loadExtensions", args |-> args, toLoad |-> toLoad,
      extensions |-> <<>>, traced |-> FALSE, warning |-> "pending",
      printed |-> "", invoked |-> <<>>, completed |-> FALSE,
      disposed |-> FALSE, rejectedAt |-> "" ]

CliIdle == [main(<<>>, 0) EXCEPT !.pc = "idle"]

\* one of the promises of loadExtensions() is settled
ExtensionSettled(loaded) ==
    /\ cli.pc = "loadExtensions"
    /\ Len(cli.extensions) < cli.toLoad
    /\ cli' = [cli EXCEPT !.extensions = Append(@, loaded)]
    /\ UNCHANGED <<liveSyncStopped, transferVars, previewVars, hmrVars, pm, npm>>

AnyExtensionFailed(state) == \E k \in DOMAIN state.extensions : ~state.extensions[k]

SettlePromises_Uncaught ==
    /\ cli.pc = "loadExtensions"
    /\ Len(cli.extensions) = cli.toLoad
    /\ cli' = IF AnyExtensionFailed(cli)
              THEN [cli EXCEPT !.pc = "rejected", !.rejectedAt = "loadExtensions"]
              ELSE [cli EXCEPT !.pc = "getMacOSWarningMessage"]
    /\ UNCHANGED <<liveSyncStopped, transferVars, previewVars, hmrVars, pm, npm>>

\* await settlePromises(...) ends: a rejection is caught and traced, and
\* getMacOSWarningMessage is called in both cases
SettlePromises ==
    /\ cli.pc = "loadExtensions"
    /\ Len(cli.extensions) = cli.toLoad
    /\ cli' = [cli EXCEPT !.pc = "getMacOSWarningMessage",
                          !.traced = AnyExtensionFailed(cli)]
    /\ UNCHANGED <<liveSyncStopped, transferVars, previewVars, hmrVars, pm, npm>>

\* await $sysInfo.getMacOSWarningMessage() resolves: the warning is printed
\* and the dispatcher is called
MacOSWarningMessage(severity) ==
    /\ cli.pc = "getMacOSWarningMessage"
    /\ cli' = [cli EXCEPT
                  !.warning = severity,
                  !.printed = CASE severity = "none" -> ""
                                [] severity = "high" -> "printOnStderr"
                                [] OTHER -> "warn",
                  !.invoked = Append(@, IF isCompletion(cli.args) THEN "completeCommand"
                                                                  ELSE "dispatchCommand"),
                  !.pc = "command"]
    /\ UNCHANGED <<liveSyncStopped, transferVars, previewVars, hmrVars, pm, npm>>

\* await $sysInfo.getMacOSWarningMessage() rejects: nothing catches it
MacOSWarningMessageFail ==
    /\ cli.pc = "getMacOSWarningMessage"
    /\ cli' = [cli EXCEPT !.pc = "rejected", !.rejectedAt = "getMacOSWarningMessage"]
    /\ UNCHANGED <<liveSyncStopped, transferVars, previewVars, hmrVars, pm, npm>>

\* the awaited completeCommand() or dispatchCommand() resolves; $injector.dispose()
CommandDone ==
    /\ cli.pc = "command"
    /\ cli' = [cli EXCEPT !.completed = TRUE, !.disposed = TRUE, !.pc = "ended"]
    /\ UNCHANGED <<liveSyncStopped, transferVars, previewVars, hmrVars, pm, npm>>

\* the awaited completeCommand() or dispatchCommand() rejects
CommandFail ==
    /\ cli.pc = "command"
    /\ cli' = [cli EXCEPT !.pc = "rejected", !.rejectedAt = cli.invoked[Len(cli.invoked)]]
    /\ UNCHANGED <<liveSyncStopped, transferVars, previewVars, hmrVars, pm, npm>>

\* the three are constructed and idle
ToolsQuiet ==
    /\ pm = PackageManager([yarn |-> FALSE])
    /\ npm = NpmIdle
    /\ cli = CliIdle

SyncInputs == {<<{mainJs, coreJs}, {}>>, <<{mainJs, compTs}, {appCss, oldTs}>>}
HookFiles == {mainJs, appCss}

PreviewStart ==
    /\ liveSyncStopped = FALSE
    /\ platformOf \in {f \in [Devices -> Platforms] : f["d1"] = "ios"}
    /\ connectedDevices = <<>>
    /\ deviceInitializationPromise = [d \in Devices |-> 0]
    /\ inits = <<>>
    /\ callers = [d \in Devices |-> <<>>]
    /\ cycles = {}
    /\ burst = [requests |-> 0, followUps |-> 0, ok |-> TRUE]
    /\ sf = SfIdle
    /\ nRequests = 0
    /\ nSyncFilesCalls = 0

HmrStart ==
    /\ parseRules = <<>>
    /\ parsingStarted = FALSE
    /\ listeners = 0
    /\ hmrAttached = FALSE
    /\ nAttach = 0
    /\ hashOperationStatuses = <<>>
    /\ intervals = <<>>
    /\ waits = <<>>
    /\ disposed = FALSE
    /\ lastAdd = [rule |-> NoRule, known |-> FALSE, threw |-> FALSE]
    /\ firstRules = <<>>
    /\ lastLog = [message |-> <<>>, deviceId |-> "", platform |-> "", rules |-> <<>>,
                  passes |-> 0]
    /\ dispatched = <<>>

NoEvents == [inits |-> 0, callers |-> 0, requests |-> 0, syncFiles |-> 0,
             rules |-> 0, waits |-> 0, transfers |-> 0, edits |-> 0, attaches |-> 0]

InitNext ==
    \/ \E d \in Devices : DeviceCallback(d)
    \/ \E i \in InitIds : HooksDone(i)
    \/ \E i \in InitIds : HooksFail(i)
    \/ \E i \in InitIds : CompareDone(i)
    \/ \E i \in InitIds : CompareFail(i)
    \/ \E c \in CycleIds : PrepareDone(c)
    \/ \E c \in CycleIds : PrepareFail(c)

SyncNext ==
    \/ InitNext
    \/ \E i \in InitIds, file \in HookFiles : StartSyncFilesTimeout(i, file)
    \/ \E in \in SyncInputs : SyncFiles(in[1], in[2])
    \/ SyncFilesCompared
    \/ SyncFilesCompareFail
    \/ \E c \in CycleIds : ApplyDone(c)
    \/ \E c \in CycleIds : ApplyFail(c)

PreviewInit ==
    /\ PreviewStart
    /\ HmrStart
    /\ TransferStart
    /\ ToolsQuiet
    /\ limits = [NoEvents EXCEPT !.inits = MaxInits, !.callers = MaxCallers]

SyncInit ==
    /\ PreviewStart
    /\ HmrStart
    /\ TransferStart
    /\ ToolsQuiet
    /\ limits = [NoEvents EXCEPT !.inits = SyncInits, !.callers = SyncCallers,
                                 !.requests = MaxRequests,
                                 !.syncFiles = MaxSyncFilesCalls]

SpecPreview == PreviewInit /\ [][InitNext]_vars

SpecSync == SyncInit /\ [][SyncNext]_vars

(***************************************************************************)
(* Claims about the device initialisation (SpecPreview).                   *)
(***************************************************************************)
PendingInits(d) == {i \in InitIds : inits[i].device = d /\ inits[i].pc # "done"}

\* C1: while an initialisation of device d is in flight, every further
\* invocation of the callback for d gets the promise of that initialisation
\* and starts no other one: at most one initializePreviewForDevice is in
\* flight per device, and the invocations waiting for d all hold the same
\* promise, hence get the same payload or the same failure.
C1_SingleFlight ==
    \A d \in Devices :
        /\ Cardinality(PendingInits(d)) <= 1
        /\ \A k1, k2 \in DOMAIN callers[d] :
               (callers[d][k1] \in PendingInits(d) /\ callers[d][k2] \in PendingInits(d))
                   => callers[d][k1] = callers[d][k2]
        /\ \A k \in DOMAIN callers[d] : inits[callers[d][k]].device = d

C1_Witness ==
    \E d \in Devices :
        /\ Len(callers[d]) >= 2
        /\ callers[d][1] = callers[d][2]
        /\ callers[d][1] \in PendingInits(d)

\* C2: when the initialisation of device d is over, by success or by failure,
\* deviceInitializationPromise[d] is null again (the slot is set only while
\* its initialisation is in flight), and an invocation of the callback for d
\* that finds the slot null starts a new initializePreviewForDevice.
C2_SlotHeldOnlyInFlight ==
    \A d \in Devices :
        deviceInitializationPromise[d] # 0 =>
            deviceInitializationPromise[d] \in PendingInits(d)

C2_FreshAfterCompletion ==
    \A d \in Devices :
        (deviceInitializationPromise[d] = 0 /\ Len(callers'[d]) > Len(callers[d])) =>
            /\ Len(inits') = Len(inits) + 1
            /\ inits'[Len(inits')].device = d
            /\ inits'[Len(inits')].pc = "hooks"
            /\ deviceInitializationPromise'[d] = Len(inits')

C2_SlotCleared == [] C2_SlotHeldOnlyInFlight /\ [][C2_FreshAfterCompletion]_vars

C2_Witness ==
    \E d \in Devices : \E i, j \in InitIds :
        /\ i < j
        /\ inits[i].device = d /\ inits[j].device = d
        /\ inits[i].pc = "done"
        /\ inits[i].outcome \in {"error", "undefined"}
        /\ deviceInitializationPromise[d] = j

(***************************************************************************)
(* Claims about the sync cycles (SpecSync).                                *)
(***************************************************************************)
\* C3: for every platform at most one run of syncFilesForPlatformSafe is in
\* flight at any time.
C3_OneCyclePerPlatform ==
    \A p \in Platforms : Cardinality(RunningCycles(p)) <= 1

\* C4: when two or more startSyncFilesTimeout calls arrived while a run was
\* in flight, exactly one follow-up run starts when that run is over.
C4_OneFollowUp == burst.requests >= 2 => burst.followUps = 1

\* C5: no requested path is dropped: once no run of a closure's
\* startSyncFilesTimeout chain is in flight, every transferable path that was
\* in filesToSyncMap[platform] at a call has been in the payload of a run
\* started at or after that call.
ChainQuiet(i) == ~ \E cy \in cycles : cy.origin = "timeout" /\ cy.chain = i

C5_NoChangeDropped ==
    \A i \in InitIds : ChainQuiet(i) => \A p \in Platforms : inits[i].unsent[p] = {}

(***************************************************************************)
(* The specifications of LogParserService with HmrStatusService's rule     *)
(* (SpecLog) and of the waits of HmrStatusService (SpecHmr).               *)
(***************************************************************************)
MaxRules == 3          \* rules in the registry
MaxWaits == 2          \* getHmrStatus calls

Hashes == {"abc123", "def456"}
\* the sources of the log messages: a device identifier and a platform
LogSources == {<<"dev-1", "">>, <<"dev-1", "iOS">>, <<"dev-1", "android">>, <<"dev-2", "iOS">>}

RuleInputs ==
    { [name |-> "build", regex |-> "done", platform |-> "ios", handler |-> "note"],
      [name |-> "pack", regex |-> "build", platform |-> "Android", handler |-> "note"],
      [name |-> "crash", regex |-> "done", platform |-> "", handler |-> "throws"],
      [name |-> "hmrStatus", regex |-> "build", platform |-> "", handler |-> "note"] }

LogMessages ==
    { <<"JS", ":", " ", "Cannot apply update with", " hmr hash ", "abc123", ".">>,
      <<"Checking for updates to the bundle with", " hmr hash ", "abc123", ".", "\n",
        "build", " ", "done", "\n",
        "Successfully applied update with", " hmr hash ", "abc123", ".">>,
      <<"CONSOLE LOG", " ", "Successfully applied update with", " hmr hash ", "abc123", ".">>,
      <<"build", " ", "done", "\n", "done", "\n">> }

HmrMessages ==
    { <<"Successfully applied update with", " hmr hash ", "abc123", ".", "\n">>,
      <<"JS", ":", " ", "Cannot apply update with", " hmr hash ", "def456", ".">> }

PreviewQuiet ==
    /\ liveSyncStopped = FALSE
    /\ platformOf = [d \in Devices |-> "ios"]
    /\ connectedDevices = <<>>
    /\ deviceInitializationPromise = [d \in Devices |-> 0]
    /\ inits = <<>>
    /\ callers = [d \in Devices |-> <<>>]
    /\ cycles = {}
    /\ burst = [requests |-> 0, followUps |-> 0, ok |-> TRUE]
    /\ sf = SfIdle
    /\ nRequests = 0
    /\ nSyncFilesCalls = 0

LogInit ==
    /\ PreviewQuiet
    /\ HmrStart
    /\ TransferStart
    /\ ToolsQuiet
    /\ limits = [NoEvents EXCEPT !.rules = MaxRules]

LogNext ==
    \/ AttachToHmrStatusEvent
    \/ \E rule \in RuleInputs : AddParseRule(rule)
    \/ \E message \in LogMessages, source \in LogSources :
           DeviceLog(message, source[1], source[2])

SpecLog == LogInit /\ [][LogNext]_vars

HmrInit ==
    /\ PreviewQuiet
    /\ HmrStart
    /\ TransferStart
    /\ ToolsQuiet
    /\ limits = [NoEvents EXCEPT !.waits = MaxWaits]

HmrNext ==
    \/ AttachToHmrStatusEvent
    \/ \E message \in HmrMessages : DeviceLog(message, "dev-1", "ios")
    \/ \E hash \in Hashes : GetHmrStatus("dev-1", hash)
    \/ \E w \in DOMAIN waits : Poll(w)
    \/ Dispose

SpecHmr == HmrInit /\ [][HmrNext]_vars

(***************************************************************************)
(* Claims about the waits of HmrStatusService (SpecHmr).                   *)
(***************************************************************************)
\* C6: when a terminal status is recorded for the key of a wait, the wait
\* resolves with it at the first poll that sees it and the timer of that wait
\* is cancelled at that poll: a wait resolved with a status holds that status,
\* has no timer left and is never polled again.
C6_ResolvedStopsPolling ==
    \A w \in DOMAIN waits :
        (waits[w].resolved /\ waits[w].status # null) =>
            /\ waits[w].status \in {HMR_SUCCESS_STATUS, HMR_ERROR_STATUS}
            /\ ~waits[w].timer
            /\ ~waits[w].latePoll

\* C7: a wait whose key never gets a terminal status does not hang: until it
\* is resolved its timer keeps polling, and it resolves with null, which is
\* neither status, once the 40 retries are used up.
C7_NeverHangs ==
    ~disposed =>
        \A w \in DOMAIN waits :
            getStatusByKey(hashOperationStatuses, waits[w].key) = null =>
                /\ ~waits[w].resolved => waits[w].timer
                /\ waits[w].resolved =>
                       /\ waits[w].status = null
                       /\ waits[w].retryCount = 0
                       /\ null \notin {HMR_SUCCESS_STATUS, HMR_ERROR_STATUS}

(***************************************************************************)
(* Claims about the log rules (SpecLog).                                   *)
(***************************************************************************)
FoundCalls == {k \in DOMAIN dispatched : dispatched[k].handler = "handleHmrStatusFound"}

\* C8: handleHmrStatusFound leaves Success as the status of (deviceId, hash)
\* when the trimmed first group is "Successfully applied update with", Error
\* when it is "Cannot apply update with", and leaves the status of the key as
\* it was for "Checking for updates to the bundle with" and any other phrase.
C8_StatusOfPhrase ==
    \A k \in FoundCalls :
        LET call == dispatched[k]
        IN  /\ call.message = SUCCESS_MESSAGE => call.after = HMR_SUCCESS_STATUS
            /\ call.message = FAILED_MESSAGE => call.after = HMR_ERROR_STATUS
            /\ call.message \notin {SUCCESS_MESSAGE, FAILED_MESSAGE} =>
                   call.after = call.before

C8_Witness ==
    /\ \E k \in FoundCalls :
           /\ dispatched[k].message = FAILED_MESSAGE
           /\ dispatched[k].before = HMR_SUCCESS_STATUS
           /\ dispatched[k].after = HMR_ERROR_STATUS
    /\ \E k \in DOMAIN hashOperationStatuses :
           hashOperationStatuses[k] = HMR_SUCCESS_STATUS

\* C9: addParseRule fails exactly when the name is already registered, and a
\* failing call changes nothing: the registry always holds, in the order of
\* their registration, the rules that were registered first under their names.
C9_DuplicateRuleRejected ==
    /\ lastAdd.threw <=> lastAdd.known
    /\ parseRules = firstRules

C9_Witness ==
    /\ lastAdd.threw
    /\ Len(parseRules) >= 2
    /\ \E k \in DOMAIN parseRules :
           /\ parseRules[k].name = lastAdd.rule.name
           /\ parseRules[k] # lastAdd.rule

\* C10 (as amended): for every line of the last message and every registered
\* rule, the handler is invoked, once and with the device identifier of the
\* message, exactly when the message has no platform or the rule has no
\* platform or the two are equal without regard to case, and the rule's
\* pattern matches the line, and no handler invoked before it for this message
\* has thrown.
LogLines == split(lastLog.message)

Wanted(l, r) ==
    /\ \/ lastLog.platform = ""
       \/ lastLog.rules[r].platform = ""
       \/ toLowerCase(lastLog.rules[r].platform) = toLowerCase(lastLog.platform)
    /\ exec(lastLog.rules[r].regex, LogLines[l]).found

ThrewBefore(l, r) ==
    \E l2 \in DOMAIN LogLines, r2 \in DOMAIN lastLog.rules :
        /\ l2 < l \/ (l2 = l /\ r2 < r)
        /\ Wanted(l2, r2)
        /\ lastLog.rules[r2].handler = "throws"

Invocations(l, r) ==
    {k \in DOMAIN dispatched :
        dispatched[k].line = l /\ dispatched[k].rule = lastLog.rules[r].name}

MaxTransfers == 2      \* transferFiles calls
MaxEdits == 2          \* changes of file contents

PathSets == (SUBSET Paths) \ {{}}

TransferInit ==
    /\ PreviewQuiet
    /\ HmrStart
    /\ TransferStart
    /\ ToolsQuiet
    /\ limits = [NoEvents EXCEPT !.transfers = MaxTransfers, !.edits = MaxEdits]

TransferNext ==
    \/ \E p \in Paths, h \in Shasums : Edit(p, h)
    \/ \E localToDevicePaths \in PathSets, options \in TransferOptions :
           TransferFiles(localToDevicePaths, options)
    \/ HashesGenerated
    \/ HashesFail
    \/ DeleteDone
    \/ DeleteFail
    \/ ShasumsRead
    \/ ShasumsFail
    \/ TransferDone
    \/ TransferFail
    \/ UpdateDone
    \/ UpdateFail
    \/ StopBeforeUpdate

SpecTransfer == TransferInit /\ [][TransferNext]_vars

(***************************************************************************)
(* Claims about the handlers that fail (SpecLog).                          *)
(***************************************************************************)
\* C11: a handler that fails on a line does not stop the dispatch: every rule
\* that the platform test lets through and whose pattern matches a line of the
\* message has its handler invoked for that line, also after a handler threw.
C11_FailureDoesNotStopDispatch ==
    \A l \in DOMAIN LogLines, r \in DOMAIN lastLog.rules :
        Wanted(l, r) => Invocations(l, r) # {}

(***************************************************************************)
(* Claims about transferFiles (SpecTransfer).                              *)
(***************************************************************************)
Started == tf.pc \notin {"idle", "hashing"}
Transported == \E k \in DOMAIN tf.log : tf.log[k] = "transfer"
ForceFull == tf.options.force /\ tf.options.isFullSync
IsPrefix(s, t) == Len(s) <= Len(t) /\ s = SubSeq(t, 1, Len(s))

\* C12: with force and isFullSync the hash file is deleted before the
\* transport starts, every supplied path is transferred whatever the table
\* held, all of them are returned, and after the call has succeeded the table
\* holds the current hash of every supplied path.
C12_ForcedFullSync ==
    ForceFull =>
        /\ tf.pc \in {"transferring", "updating", "done", "stopped"} =>
               /\ tf.log # <<>> /\ tf.log[1] = "delete"
               /\ tf.toTransfer = tf.localToDevicePaths
        /\ tf.pc = "transferring" => deviceTable = EmptyTable
        /\ tf.pc = "done" =>
               /\ tf.returned = tf.localToDevicePaths
               /\ tf.log = <<"delete", "transfer", "update">>
               /\ \A p \in tf.localToDevicePaths :
                      deviceTable[p] = tf.currentHashes[p] /\ deviceTable[p] # NoHash

C12_Witness ==
    /\ ForceFull
    /\ tf.pc = "done"
    /\ \E p \in tf.localToDevicePaths : tf.tableBefore[p] = tf.currentHashes[p]

ChangedPaths ==
    {p \in tf.localToDevicePaths :
        tf.tableBefore[p] = NoHash \/ tf.tableBefore[p] # tf.currentHashes[p]}

\* C13 (as amended): without force, the diff against the stored hashes is
\* computed when isFullSync is true, and then only the paths absent from the
\* table or stored with another hash are transferred; when isFullSync is false
\* every supplied path is transferred and no diff is computed.
C13_DiffOnlyOnFullSync ==
    (~tf.options.force /\ tf.pc \in {"transferring", "updating", "done", "stopped"}) =>
        /\ tf.options.isFullSync => tf.toTransfer = ChangedPaths
        /\ ~tf.options.isFullSync => tf.toTransfer = tf.localToDevicePaths
        /\ tf.pc = "done" => tf.returned = tf.toTransfer

C13_Witness ==
    /\ ~tf.options.force /\ tf.options.isFullSync
    /\ tf.pc = "done"
    /\ tf.toTransfer # {}
    /\ tf.toTransfer # tf.localToDevicePaths

\* C13 as first stated: with isFullSync false and force false only the
\* changed paths are transferred.
C13_IncrementalDiffs ==
    (~tf.options.force /\ ~tf.options.isFullSync
        /\ tf.pc \in {"transferring", "updating", "done", "stopped"}) =>
            tf.toTransfer = ChangedPaths

\* C14: with force and without isFullSync every supplied path is transferred,
\* no diff is computed, and the table is neither deleted nor written before
\* the transport is over.
C14_ForcedIncremental ==
    (tf.options.force /\ ~tf.options.isFullSync /\ Started) =>
        /\ tf.pc # "reading" /\ tf.pc # "deleting"
        /\ tf.pc \in {"transferring", "updating", "done", "stopped"} =>
               tf.toTransfer = tf.localToDevicePaths
        /\ \A k \in DOMAIN tf.log : tf.log[k] # "delete"
        /\ ~Transported => deviceTable = tf.tableBefore
        /\ tf.pc \in {"updating", "stopped"} => deviceTable = tf.tableBefore

C14_Witness ==
    /\ tf.options.force /\ ~tf.options.isFullSync
    /\ tf.pc = "updating"
    /\ tf.tableBefore # EmptyTable
    /\ \E p \in tf.localToDevicePaths : tf.tableBefore[p] = tf.currentHashes[p]

\* C15 (as amended): the hashes are written to the table only after the
\* transport of the same call has succeeded; the one change of the table that
\* precedes the transport is the deletion of the hash file of a call with
\* force and isFullSync, and no other call changes the table before its
\* transport is over.
C15_WriteAfterTransport ==
    /\ IsPrefix(tf.log, IF ForceFull THEN <<"delete", "transfer", "update">>
                        ELSE <<"transfer", "update">>)
    /\ (tf.pc # "idle" /\ tf.pc # "done") =>
           deviceTable = IF ForceFull /\ tf.log # <<>> THEN EmptyTable
                         ELSE tf.tableBefore

C15_Witness ==
    /\ tf.pc = "done"
    /\ ~ForceFull
    /\ tf.tableBefore # EmptyTable
    /\ deviceTable # tf.tableBefore
    /\ tf.log = <<"transfer", "update">>

\* C15 as first stated: nothing is written to or deleted from the table
\* before the transport of the call is confirmed.
C15_NoChangeBeforeTransport ==
    (tf.pc # "idle" /\ ~Transported) => deviceTable = tf.tableBefore

\* C16 (as amended): when the transport rejects, transferFiles rejects and
\* nothing has been written to the table: the table is what it was before the
\* call, except after a call with force and isFullSync, whose hash file was
\* deleted before the transport and stays deleted (the table is empty).
C16_FailedTransportWritesNothing ==
    tf.failedAt = "transfer" =>
        /\ tf.pc = "rejected"
        /\ tf.returned = {}
        /\ deviceTable = IF ForceFull THEN EmptyTable ELSE tf.tableBefore

C16_Witness ==
    /\ tf.failedAt = "transfer"
    /\ ~ForceFull
    /\ tf.tableBefore # EmptyTable
    /\ \E p \in tf.localToDevicePaths : tf.tableBefore[p] # tf.currentHashes[p]

\* C16 as first stated: after a transport that rejected the table is
\* identical to its value before the call, whatever force and isFullSync are.
C16_TableIdenticalAfterFailure ==
    tf.failedAt = "transfer" => deviceTable = tf.tableBefore

Diffing(call) == ~call.options.force /\ call.options.isFullSync
Planned(call) == call.pc \in {"transferring", "updating", "done", "stopped"}

\* C17: after a transferFiles that succeeded for a set of paths, a diffing
\* transferFiles (isFullSync without force) that follows it for the same paths
\* with the same contents finds no changed path and transfers no file.
C17_CommitThenDiffIsEmpty ==
    (/\ lastTransfer.pc = "done"
     /\ Diffing(tf) /\ Planned(tf)
     /\ tf.localToDevicePaths = lastTransfer.localToDevicePaths
     /\ tf.currentHashes = lastTransfer.currentHashes)
        => tf.toTransfer = {}

C17_Witness ==
    /\ lastTransfer.pc = "done"
    /\ lastTransfer.toTransfer # {}
    /\ Diffing(tf) /\ tf.pc = "done"
    /\ tf.localToDevicePaths = lastTransfer.localToDevicePaths
    /\ tf.currentHashes = lastTransfer.currentHashes
    /\ tf.returned = {}

\* the paths of the stopped call whose hash was new to the table
NewInStopped == {p \in lastTransfer.toTransfer :
                    lastTransfer.tableBefore[p] # lastTransfer.currentHashes[p]}

\* C18: when the process stopped after the transport and before
\* updateHashesOnDevice, the table holds none of the new hashes of that call,
\* and the diff of the next call takes every path that call sent with a new
\* hash as changed and sends it again; a path is left out of a diffing
\* transfer only when the table holds its current hash.
C18_StopBeforeCommitResends ==
    /\ tf.pc = "stopped" =>
           /\ deviceTable = IF ForceFull THEN EmptyTable ELSE tf.tableBefore
           /\ \A p \in tf.toTransfer :
                  tf.tableBefore[p] # tf.currentHashes[p] =>
                      deviceTable[p] # tf.currentHashes[p]
    /\ (lastTransfer.pc = "stopped" /\ Diffing(tf) /\ Planned(tf)) =>
           \A p \in NewInStopped \cap tf.localToDevicePaths :
               tf.currentHashes[p] = lastTransfer.currentHashes[p] =>
                   p \in tf.toTransfer
    /\ (Diffing(tf) /\ Planned(tf)) =>
           \A p \in tf.localToDevicePaths \ tf.toTransfer :
               tf.tableBefore[p] = tf.currentHashes[p] /\ tf.tableBefore[p] # NoHash

C18_Witness ==
    /\ lastTransfer.pc = "stopped"
    /\ NewInStopped # {}
    /\ Diffing(tf) /\ tf.pc = "done"
    /\ tf.currentHashes = lastTransfer.currentHashes
    /\ tf.returned = NewInStopped

(***************************************************************************)
(* Claims about the payloads and about syncFiles.  SpecSyncFiles is the    *)
(* initialisation of two devices together with the calls of syncFiles.     *)
(***************************************************************************)
FilesInits == 2        \* initializePreviewForDevice invocations
FilesCallers == 2      \* invocations of the device callback
FilesCalls == 1        \* syncFiles calls

SyncFilesInit ==
    /\ PreviewStart
    /\ HmrStart
    /\ TransferStart
    /\ ToolsQuiet
    /\ limits = [NoEvents EXCEPT !.inits = FilesInits, !.callers = FilesCallers,
                                 !.syncFiles = FilesCalls]

SyncFilesNext ==
    \/ InitNext
    \/ \E in \in SyncInputs : SyncFiles(in[1], in[2])
    \/ SyncFilesCompared
    \/ SyncFilesCompareFail
    \/ \E c \in CycleIds : ApplyDone(c)
    \/ \E c \in CycleIds : ApplyFail(c)

SpecSyncFiles == SyncFilesInit /\ [][SyncFilesNext]_vars

Excluded(file) ==
    \/ file.dir \in {"tns_modules", "App_Resources"}
    \/ file.base = ".DS_Store"
    \/ file.ext \in {".ts", ".sass", ".scss", ".less"}

\* C19: no entry of a payload handed to applyChanges, "change" or "unlink",
\* is a file under tns_modules or App_Resources, a file named .DS_Store or a
\* file with the extension .ts, .sass, .scss or .less.
C19_NoExcludedFileInPayload ==
    \A cy \in cycles :
        \A file \in cy.payload.change \cup cy.payload.unlink : ~Excluded(file)

\* C20: in syncFiles a run that fails in preparePlatform or in applyChanges
\* does not end the call: the runs of the platforms that are left still start,
\* one after the other, and syncFiles resolves; syncFiles rejects only before
\* its first run.
C20_FailureDoesNotStopSyncFiles ==
    /\ sf.failed \subseteq Range(sf.ran)
    /\ sf.pc = "rejected" => sf.ran = <<>>
    /\ sf.pc = "done" => sf.ran = sf.all
    /\ sf.pc = "wait" =>
           /\ sf.ran \o sf.platforms = sf.all
           /\ \E cy \in cycles : /\ cy.origin = "syncFiles"
                                 /\ cy.platform = sf.ran[Len(sf.ran)]

C20_Witness ==
    /\ sf.pc = "done"
    /\ Len(sf.all) = 2
    /\ sf.all[1] \in sf.failed
    /\ sf.ran = sf.all

\* a step touches device d: it changes the slot of d, changes the record of an
\* invocation for d or starts an invocation for d
Touched(d) ==
    \/ deviceInitializationPromise'[d] # deviceInitializationPromise[d]
    \/ \E i \in InitIds : inits[i].device = d /\ inits'[i] # inits[i]
    \/ Len(inits') > Len(inits) /\ inits'[Len(inits')].device = d

OneDeviceAStep == \A a, b \in Devices : a # b => ~(Touched(a) /\ Touched(b))

SyncsEveryPlatform ==
    /\ sf.pc \in {"wait", "done"} /\ sf.all # <<>> => IsPrefix(sf.all, connectedPlatforms)
    /\ sf.pc = "done" => \A k \in DOMAIN sf.all : sf.all[k] \in Range(sf.ran)

\* C21: a step that starts, advances, fails or completes the initialization
\* of one device leaves the slot and the invocation records of every other
\* device as they were, and whatever the state of the initializations, a
\* syncFiles call that got past its plugin comparison runs a cycle for the
\* platform of every device that was connected when it was called.
C21_DevicesAreIndependent == []SyncsEveryPlatform /\ [][OneDeviceAStep]_vars

C21_Witness ==
    /\ Len(inits) = 2
    /\ inits[1].device # inits[2].device
    /\ inits[2].outcome = "error"
    /\ inits[1].pc = "sync" /\ deviceInitializationPromise[inits[1].device] = 1
    /\ deviceInitializationPromise[inits[2].device] = 0
    /\ sf.pc = "done" /\ Len(sf.all) = 2 /\ sf.ran = sf.all

(***************************************************************************)
(* Claims about failed cycles.  SpecRetry is the closure of an initialized  *)
(* device with the requests of its hook and the calls of syncFiles.        *)
(***************************************************************************)
RetryRequests == 3     \* startSyncFilesTimeout calls
RetryCalls == 1        \* syncFiles calls

\* device d1 is connected and its initialization has returned its payloads
RetryInit ==
    /\ liveSyncStopped = FALSE
    /\ platformOf \in {f \in [Devices -> Platforms] : f["d1"] = "ios"}
    /\ connectedDevices = <<"d1">>
    /\ deviceInitializationPromise = [d \in Devices |-> 0]
    /\ inits = <<[initializePreviewForDevice("d1") EXCEPT
                      !.pc = "done", !.outcome = "payload",
                      !.payloads = getFilesPayload("ios", getProjectFiles, undefined)]>>
    /\ callers = [d \in Devices |-> IF d = "d1" THEN <<1>> ELSE <<>>]
    /\ cycles = {}
    /\ burst = [requests |-> 0, followUps |-> 0, ok |-> TRUE]
    /\ sf = SfIdle
    /\ nRequests = 0
    /\ nSyncFilesCalls = 0
    /\ HmrStart
    /\ TransferStart
    /\ ToolsQuiet
    /\ limits = [NoEvents EXCEPT !.requests = RetryRequests, !.syncFiles = RetryCalls]

RetryNext ==
    \/ \E i \in InitIds, file \in HookFiles : StartSyncFilesTimeout(i, file)
    \/ SyncFiles({mainJs}, {appCss})
    \/ SyncFilesCompared
    \/ SyncFilesCompareFail
    \/ \E c \in CycleIds : PrepareDone(c)
    \/ \E c \in CycleIds : PrepareFail(c)
    \/ \E c \in CycleIds : ApplyDone(c)
    \/ \E c \in CycleIds : ApplyFail(c)

SpecRetry == RetryInit /\ [][RetryNext]_vars

\* `promise` of a closure is resolved or is the promise of a run in flight of
\* the closure's chain, and the callbacks queued on a run that is over have
\* each started a run, whether the run succeeded or caught an error
ChainNeverStuck ==
    /\ \A i \in InitIds :
           ~isResolved(inits[i].promise) =>
               /\ inits[i].promise \in CycleIds
               /\ cycle(inits[i].promise).origin = "timeout"
               /\ cycle(inits[i].promise).chain = i
    /\ burst.requests >= 1 => burst.followUps >= 1
    /\ sf.pc = "wait" => \E cy \in cycles : cy.origin = "syncFiles"

\* a startSyncFilesTimeout call starts a run for its platform or queues its
\* callback on a run in flight; a syncFiles call is accepted
RequestIsServed ==
    /\ nRequests' > nRequests =>
           \E i \in InitIds :
               LET promise == inits[i].promise
                   platform == platformOf[inits[i].device]
               IN  IF isResolved(promise)
                   THEN \E cy \in cycles' \ cycles :
                            /\ cy.platform = platform /\ cy.chain = i
                            /\ inits'[i].promise = cy.id
                   ELSE \E cy \in cycles' :
                            /\ cy.id = promise
                            /\ Len(cy.thens) = Len(cycle(promise).thens) + 1
    /\ nSyncFilesCalls' > nSyncFilesCalls =>
           sf'.pc = IF connectedDevices = <<>> THEN "done" ELSE "compare"

\* C22: a run that catches an error of preparePlatform or applyChanges ends
\* alone: the closure's promise is never left rejected or pending for ever,
\* the callbacks queued on the failed run start their runs, and a later
\* startSyncFilesTimeout or syncFiles call starts a new run.
C22_FailureLeavesChainUsable == []ChainNeverStuck /\ [][RequestIsServed]_vars

C22_Witness ==
    /\ nRequests = 2
    /\ ~burst.ok /\ burst.requests = 0
    /\ \E cy \in cycles : /\ cy.origin = "timeout"
                          /\ inits[cy.chain].promise = cy.id

\* C23: when preparePlatform fails in a run, the caller of the run observes a
\* failure: the initialization that awaits its initial sync fails, and the
\* syncFiles call that awaits the run of a platform rejects.
PrepareFailureReachesCaller ==
    \A cy \in cycles :
        cy.pc = "prepare" /\ cy \notin cycles' =>
            /\ (cy.origin = "init" /\ inits'[cy.chain].outcome # "payload") =>
                   inits'[cy.chain].outcome = "error"
            /\ (cy.origin = "syncFiles" /\ cy.platform \in sf'.failed) =>
                   sf'.pc = "rejected"

C23_PrepareFailureFailsCycle == [][PrepareFailureReachesCaller]_vars

\* C24: an initialization that did not return its payloads has failed for
\* every caller that holds its promise: none of them gets a resolved promise
\* without payloads.
C24_InitFailureReachesEveryCaller ==
    \A d \in Devices : \A k \in DOMAIN callers[d] :
        inits[callers[d][k]].pc = "done" =>
            inits[callers[d][k]].outcome \in {"payload", "error"}

(***************************************************************************)
(* Claims about the end of the waits of getHmrStatus.  SpecStop is the     *)
(* waits together with stopLiveSync and the exit of the process.           *)
(***************************************************************************)
StopWaits == 1         \* getHmrStatus calls

StopInit ==
    /\ PreviewQuiet
    /\ HmrStart
    /\ TransferStart
    /\ ToolsQuiet
    /\ limits = [NoEvents EXCEPT !.waits = StopWaits]

StopNext ==
    \/ \E hash \in Hashes : GetHmrStatus("dev-1", hash)
    \/ \E w \in DOMAIN waits : Poll(w)
    \/ StopLiveSync
    \/ Dispose

SpecStop == StopInit /\ [][StopNext]_vars

\* C25: once stopLiveSync has run, no timer of a getHmrStatus wait is active.
C25_NoTimerAfterStop ==
    liveSyncStopped => \A w \in DOMAIN waits : ~waits[w].timer

\* C26: the poll that resolves a wait for a key destroys the operation entry
\* of the key: after it no status is recorded for the key, so that a later
\* wait on the key cannot resolve from it.
EntryClearedAtResolution ==
    \A w \in DOMAIN waits :
        ~waits[w].resolved /\ waits'[w].resolved =>
            getStatusByKey(hashOperationStatuses', waits[w].key) = null

C26_EntryDestroyedOnceResolved == [][EntryClearedAtResolution]_vars

(***************************************************************************)
(* Claims about the listeners of the log sources (SpecLog).                *)
(***************************************************************************)
\* C27: however many rules are added, a log source has at most one
\* processDeviceLogResponse listener, exactly one once a rule is registered:
\* a chunk that a source emits runs through the rules once, so no rule is
\* invoked twice for a line.
C27_AttachedOnce ==
    /\ listeners <= 1
    /\ parseRules # <<>> => listeners = 1
    /\ lastLog.message # <<>> =>
           /\ lastLog.passes = 1
           /\ \A l \in DOMAIN LogLines, r \in DOMAIN lastLog.rules :
                  Cardinality(Invocations(l, r)) <= 1

C27_Witness ==
    /\ Len(parseRules) = 3
    /\ lastLog.rules = parseRules
    /\ lastLog.passes = 1
    /\ \E l \in DOMAIN LogLines, r \in DOMAIN lastLog.rules :
           Cardinality(Invocations(l, r)) = 1

(***************************************************************************)
(* Claims about the entries of a payload (SpecSyncFiles).                  *)
(***************************************************************************)
\* C28: the "unlink" entries of the payload of a run are the removed paths
\* its caller supplied, all of them and nothing else; the "change" entries
\* are the supplied changed files that pass the exclusion filter; the
\* payload of an initial sync has no "unlink" entry.
C28_PayloadEntries ==
    /\ \A cy \in cycles :
           cy.pc = "apply" =>
               /\ cy.payload.unlink = cy.filesToRemove
               /\ cy.payload.change = {file \in cy.filesToSync : ~Excluded(file)}
               /\ cy.origin = "syncFiles" =>
                      /\ cy.payload.unlink = sf.filesToRemove
                      /\ cy.payload.change \subseteq sf.filesToSync
               /\ cy.origin = "timeout" => cy.payload.unlink = {}
    /\ \A i \in InitIds :
           /\ inits[i].payloads.unlink = {}
           /\ inits[i].outcome = "payload" =>
                  inits[i].payloads.change = {file \in getProjectFiles : ~Excluded(file)}

C28_Witness ==
    /\ \E cy \in cycles :
           /\ cy.pc = "apply" /\ cy.origin = "syncFiles"
           /\ cy.payload.unlink = {appCss, oldTs}
           /\ cy.payload.change = {mainJs}
    /\ \E i \in InitIds :
           /\ inits[i].outcome = "payload"
           /\ inits[i].payloads.change = {mainJs, appCss}

(***************************************************************************)
(* Claims about the diff of transferFiles (SpecTransfer).                  *)
(***************************************************************************)
\* the call computed its diff and ended without writing the hash file
DiffedWithoutCommit(call) ==
    /\ Diffing(call)
    /\ \/ call.pc = "stopped"
       \/ call.pc = "rejected" /\ call.failedAt \in {"transfer", "update"}

DiffLeavesTable == tf.pc = "reading" => deviceTable' = deviceTable

SameDiffTwice ==
    (/\ DiffedWithoutCommit(lastTransfer)
     /\ Diffing(tf) /\ Planned(tf)
     /\ tf.localToDevicePaths = lastTransfer.localToDevicePaths
     /\ tf.currentHashes = lastTransfer.currentHashes)
        => /\ tf.tableBefore = lastTransfer.tableBefore
           /\ tf.toTransfer = lastTransfer.toTransfer

\* C29: the step that computes the diff leaves the hash table of the device
\* as it is, and two diffs of the same paths with the same contents, with no
\* write of the hash file between them, find the same changed paths.
C29_DiffIsPure == []SameDiffTwice /\ [][DiffLeavesTable]_vars

C29_Witness ==
    /\ DiffedWithoutCommit(lastTransfer)
    /\ Diffing(tf) /\ Planned(tf)
    /\ tf.localToDevicePaths = lastTransfer.localToDevicePaths
    /\ tf.currentHashes = lastTransfer.currentHashes
    /\ tf.toTransfer = lastTransfer.toTransfer
    /\ tf.toTransfer # {}

\* C30: a transferFiles with isFullSync and without force transfers and
\* returns a supplied path exactly when the table of the device has no hash
\* for it or another hash than the current one, in one transport followed by
\* one write of the hash file; on a device without hash file that is every
\* supplied path.
C30_ChangedPathsExactly ==
    (Diffing(tf) /\ Planned(tf)) =>
        /\ \A p \in Paths :
               p \in tf.toTransfer <=>
                   /\ p \in tf.localToDevicePaths
                   /\ tf.tableBefore[p] = NoHash \/ tf.tableBefore[p] # tf.currentHashes[p]
        /\ tf.tableBefore = EmptyTable => tf.toTransfer = tf.localToDevicePaths
        /\ tf.pc = "done" =>
               /\ tf.returned = tf.toTransfer
               /\ tf.log = <<"transfer", "update">>

C30_Witness ==
    /\ Diffing(tf) /\ tf.pc = "done"
    /\ \E p \in tf.returned : tf.tableBefore[p] = NoHash
    /\ \E p \in tf.localToDevicePaths \ tf.returned :
           tf.tableBefore[p] = tf.currentHashes[p]

(***************************************************************************)
(* Claims about waits that share a key and about dispose (SpecHmr).        *)
(***************************************************************************)
SameKey(v, w) == v # w /\ waits[v].key = waits[w].key

\* C31: of two getHmrStatus waits for the same device and hash, each one that
\* has resolved has its timer cancelled, and each one that has not resolved
\* still has its timer, so that it will resolve.
C31_SameKeyWaitsBothEnd ==
    \A v, w \in DOMAIN waits :
        SameKey(v, w) =>
            /\ waits[w].resolved => ~waits[w].timer
            /\ (~waits[w].resolved /\ ~disposed) => waits[w].timer

(***************************************************************************)
(* Claims about the keys of the status table.  SpecKeys is the waits and   *)
(* the status lines of three (deviceId, operationHash) pairs.              *)
(***************************************************************************)
KeyWaits == 1          \* getHmrStatus calls

KeyPairs == {<<"dev-1", "abc123">>, <<"dev-1a", "bc123">>, <<"dev-2", "abc123">>}

statusLine(operationHash) ==
    <<"Successfully applied update with", " hmr hash ", operationHash, ".">>

KeysInit ==
    /\ PreviewQuiet
    /\ HmrStart
    /\ TransferStart
    /\ ToolsQuiet
    /\ limits = [NoEvents EXCEPT !.waits = KeyWaits]

KeysNext ==
    \/ AttachToHmrStatusEvent
    \/ \E pair \in KeyPairs : DeviceLog(statusLine(pair[2]), pair[1], "ios")
    \/ \E pair \in KeyPairs : GetHmrStatus(pair[1], pair[2])
    \/ \E w \in DOMAIN waits : Poll(w)

SpecKeys == KeysInit /\ [][KeysNext]_vars

statusOfPair(statuses, pair) == getStatusByKey(statuses, keyOf(pair[1], pair[2]))

\* the status that getHmrStatus reads for a pair changes only when a log line
\* of that device names that hash
OnlyOwnPairChanges ==
    \A pair \in KeyPairs :
        statusOfPair(hashOperationStatuses', pair) # statusOfPair(hashOperationStatuses, pair)
            => /\ lastLog'.deviceId = pair[1]
               /\ pair[2] \in Range(lastLog'.message)

\* C32: the statuses of distinct (deviceId, operationHash) pairs are
\* independent: a status recorded for one pair is never the status that
\* getHmrStatus reads for another pair.
C32_PairsAreIndependent == [][OnlyOwnPairChanges]_vars

\* C33: once dispose has run, no timer of a getHmrStatus call is active.
C33_NoTimerAfterDispose ==
    disposed => \A w \in DOMAIN waits : ~waits[w].timer

(***************************************************************************)
(* Claims about attachToHmrStatusEvent.  SpecAttach is the registry with   *)
(* the calls of attachToHmrStatusEvent counted.                            *)
(***************************************************************************)
MaxAttaches == 3       \* attachToHmrStatusEvent calls counted
AttachRules == 3       \* rules in the registry

AttachInit ==
    /\ PreviewQuiet
    /\ HmrStart
    /\ TransferStart
    /\ ToolsQuiet
    /\ limits = [NoEvents EXCEPT !.rules = AttachRules, !.attaches = MaxAttaches]

AttachNext ==
    \/ AttachToHmrStatusEvent
    \/ \E rule \in RuleInputs : AddParseRule(rule)
    \/ \E message \in HmrMessages : DeviceLog(message, "dev-1", "ios")

SpecAttach == AttachInit /\ [][AttachNext]_vars

OwnRules == {k \in DOMAIN parseRules : parseRules[k] = hmrStatusRule}

ForeignRule ==
    \E k \in DOMAIN parseRules :
        parseRules[k].name = hmrStatusRule.name /\ parseRules[k] # hmrStatusRule

\* C34: however often attachToHmrStatusEvent is called, the registry holds its
\* "hmrStatus" rule once, and its calls never run into the failure of
\* addParseRule for a rule it has registered itself: that failure occurs only
\* when another caller had taken the name before the first call.
C34_AttachIsIdempotent ==
    /\ Cardinality(OwnRules) <= 1
    /\ (nAttach >= 1 /\ ~ForeignRule) => Cardinality(OwnRules) = 1
    /\ (lastAdd.rule = hmrStatusRule /\ lastAdd.threw) => ForeignRule

C34_Witness ==
    /\ nAttach = 3
    /\ Cardinality(OwnRules) = 1
    /\ Len(parseRules) >= 2
    /\ ~lastAdd.threw

(***************************************************************************)
(* Claims about the cycles of syncFiles (SpecSyncFiles).                   *)
(***************************************************************************)
SyncFilesCycles == {cy \in cycles : cy.origin = "syncFiles"}

NoDuplicates(seq) == \A j, k \in DOMAIN seq : seq[j] = seq[k] => j = k

\* C35: a syncFiles call runs one cycle for each distinct platform of the
\* connected devices, never two for a platform, and one at a time: the cycle
\* of a platform starts when the cycle before it is over.
C35_OneCyclePerPlatformInTurn ==
    /\ NoDuplicates(sf.all) /\ NoDuplicates(sf.ran)
    /\ Cardinality(SyncFilesCycles) <= 1
    /\ sf.pc = "wait" <=> SyncFilesCycles # {}
    /\ \A cy \in SyncFilesCycles : cy.platform = sf.ran[Len(sf.ran)]
    /\ sf.pc \in {"wait", "done"} /\ sf.all # <<>> =>
           /\ Range(sf.all) \subseteq {platformOf[d] : d \in Range(connectedDevices)}
           /\ IsPrefix(sf.ran, sf.all)
    /\ sf.pc = "done" => Len(sf.ran) = Cardinality(Range(sf.all))

C35_Witness ==
    /\ Len(connectedDevices) = 2
    /\ platformOf["d1"] = platformOf["d2"]
    /\ sf.pc = "done"
    /\ Len(sf.ran) = 1

\* an initial sync never waits in applyChanges and returns the payloads of
\* the project files; a run that waits in applyChanges is not an initial sync
\* and has handed over its payload
AppliesUnlessInitial ==
    /\ \A cy \in cycles :
           /\ cy.isInitialSync <=> cy.origin = "init"
           /\ cy.isInitialSync => cy.pc = "prepare" /\ cy.payload = NoPayload
           /\ cy.pc = "apply" =>
                  /\ cy.payload.platform = cy.platform
                  /\ cy.payload.change \subseteq cy.filesToSync
    /\ \A i \in InitIds :
           inits[i].outcome = "payload" =>
               /\ inits[i].payloads.platform = platformOf[inits[i].device]
               /\ inits[i].payloads.change \subseteq getProjectFiles
               /\ \A file \in getProjectFiles :
                      ~Excluded(file) => file \in inits[i].payloads.change

\* the run of syncFiles that ends without a caught error ends in applyChanges
SuccessEndsInApply ==
    (sf.pc = "wait" /\ sf' # sf /\ sf'.failed = sf.failed) =>
        \A cy \in SyncFilesCycles : cy.pc = "apply"

\* C36: an initial sync builds its payload from the project files of the
\* platform and returns it without calling applyChanges; a run that is not
\* an initial sync and succeeds has called applyChanges once, with its
\* payload, and resolves when that call is over.
C36_ApplyOnlyWhenNotInitial == []AppliesUnlessInitial /\ [][SuccessEndsInApply]_vars

C36_Witness ==
    /\ \E i \in InitIds :
           inits[i].outcome = "payload" /\ inits[i].payloads.change = {mainJs, appCss}
    /\ sf.pc = "done" /\ sf.ran # <<>> /\ sf.failed = {}

(***************************************************************************)
(* Claims about PackageManager.  SpecPackageManager is a PackageManager    *)
(* constructed with either value of options.yarn, its calls and the later  *)
(* changes of options.yarn.                                                *)
(***************************************************************************)
ArgValues == {"nativescript-theme", "/project"}

PackageManagerInit ==
    /\ PreviewQuiet
    /\ HmrStart
    /\ TransferStart
    /\ limits = NoEvents
    /\ \E yarn \in BOOLEAN : pm = PackageManager([yarn |-> yarn])
    /\ npm = NpmIdle
    /\ cli = CliIdle

PackageManagerNext ==
    \/ \E operation \in DOMAIN PackageManagerOperations :
           \E args \in [1..PackageManagerOperations[operation] -> ArgValues] :
               PackageManagerCall(operation, args)
    \/ \E value \in BOOLEAN : SetYarn(value)

SpecPackageManager == PackageManagerInit /\ [][PackageManagerNext]_vars

\* C37: the delegate is the one chosen from options.yarn at construction,
\* yarn exactly when it was set, whatever options.yarn is now; every call of
\* an operation reaches that delegate as the same operation with the same
\* arguments.
C37_DelegateFixedAtConstruction ==
    /\ pm.packageManager = IF pm.constructedWith.yarn THEN "yarn" ELSE "npm"
    /\ pm.asked # NoCall =>
           /\ pm.forwarded.receiver = IF pm.constructedWith.yarn THEN "yarn" ELSE "npm"
           /\ pm.forwarded.method = pm.asked.method
           /\ pm.forwarded.args = pm.asked.args

C37_Witness ==
    /\ pm.constructedWith.yarn /\ ~pm.options.yarn
    /\ pm.asked.method = "install" /\ Len(pm.asked.args) = 3
    /\ pm.forwarded.receiver = "yarn"

(***************************************************************************)
(* Claims about NpmService.install (SpecNpmService).                       *)
(***************************************************************************)
Dependencies == [name : {"lodash", "moment"}, version : {"", "4.17.0"}, installTypes : BOOLEAN]

NpmServiceInit ==
    /\ PreviewQuiet
    /\ HmrStart
    /\ TransferStart
    /\ limits = NoEvents
    /\ ToolsQuiet

NpmServiceNext ==
    \/ \E dependencyToInstall \in Dependencies \cup {NoDependency} :
           NpmServiceInstall(dependencyToInstall)
    \/ NpmCommandDone
    \/ NpmCommandFail

SpecNpmService == NpmServiceInit /\ [][NpmServiceNext]_vars

TypingsSpawned ==
    \E k \in DOMAIN npm.spawned : npm.spawned[k][Len(npm.spawned[k])] = "@types/" \o npm.dependency.name

\* C38: install does not reject because an npm command failed: the failure
\* is in the error field of the result; isInstalled is false when the install
\* of the dependency failed; the typings are installed only after the
\* dependency has been installed; generateReferencesFile is called at the end
\* of every path, after a failure too.
C38_InstallReportsNpmFailures ==
    /\ npm.outcome = "rejected" => npm.rejectedBy = "generateReferencesFile"
    /\ npm.failed # {} <=> npm.error # ""
    /\ npm.error # "" => npm.error \in npm.failed
    /\ "npmInstall" \in npm.failed => ~npm.isInstalled /\ ~npm.isTypesInstalled
    /\ npm.isTypesInstalled => npm.isInstalled
    /\ TypingsSpawned => npm.isInstalled /\ npm.dependency.installTypes
    /\ npm.pc = "over" <=> npm.references = 1
    /\ npm.pc # "over" => npm.references = 0 /\ npm.outcome \in {"none", "pending"}

C38_Witness ==
    /\ npm.pc = "over" /\ npm.outcome = "resolved"
    /\ npm.dependency.installTypes
    /\ npm.error = "npmInstall" /\ ~npm.isInstalled
    /\ npm.references = 1

(***************************************************************************)
(* Claims about the start-up of the CLI (SpecCli).                         *)
(***************************************************************************)
CommandLines == {<<>>, <<"completion">>, <<"run">>, <<"run", "completion">>}

Severities == {"none", "medium", "high"}

CliInit ==
    /\ PreviewQuiet
    /\ HmrStart
    /\ TransferStart
    /\ limits = NoEvents
    /\ pm = PackageManager([yarn |-> FALSE])
    /\ npm = NpmIdle
    /\ \E args \in CommandLines, toLoad \in 0..MaxExtensions : cli = main(args, toLoad)

CliNext ==
    \/ \E loaded \in BOOLEAN : ExtensionSettled(loaded)
    \/ SettlePromises
    \/ \E severity \in Severities : MacOSWarningMessage(severity)
    \/ MacOSWarningMessageFail
    \/ CommandDone
    \/ CommandFail

SpecCli == CliInit /\ [][CliNext]_vars

RunIsOver == cli.pc \in {"ended", "rejected"}

ExpectedCommand == IF isCompletion(cli.args) THEN "completeCommand" ELSE "dispatchCommand"

\* C39: a failure while loading extensions is caught and does not end the
\* run; once getMacOSWarningMessage has resolved exactly one of
\* completeCommand (first argument "completion") and dispatchCommand has been
\* invoked, and none before; $injector.dispose runs only after that
\* invocation has completed.
C39_OneCommandThenDispose ==
    /\ cli.rejectedAt # "loadExtensions"
    /\ cli.traced <=> (cli.pc # "loadExtensions" /\ AnyExtensionFailed(cli))
    /\ cli.invoked = IF cli.warning = "pending" THEN <<>> ELSE <<ExpectedCommand>>
    /\ cli.warning # "pending" <=>
          \/ cli.pc \in {"command", "ended"}
          \/ cli.pc = "rejected" /\ cli.rejectedAt = ExpectedCommand
    /\ cli.disposed => cli.completed /\ cli.invoked = <<ExpectedCommand>>
    /\ cli.disposed <=> cli.pc = "ended"

C39_Witness ==
    /\ AnyExtensionFailed(cli)
    /\ cli.traced
    /\ cli.args = <<"completion">>
    /\ cli.invoked = <<"completeCommand">>
    /\ cli.disposed

\* C39 as stated: every run invokes exactly one of the two methods.
C39_EveryRunInvokesOne == RunIsOver => Len(cli.invoked) = 1

====
